---------------------------- MODULE Spec2Model ----------------------------
(***************************************************************************)
(* A model of node-layered-config: LayeredConfiguration (an ordered list   *)
(* of named Layer objects) and Layer (one tree of nested mappings).        *)
(*                                                                         *)
(* JavaScript strings are sequences of one-character strings, so that      *)
(* trimming, splitting and the normalisation of layer names are computed   *)
(* and not assumed.  JavaScript values are tagged records.  Layer names    *)
(* and mapping keys range over ordinary property names (no member of       *)
(* Object.prototype such as "constructor" or "__proto__").                 *)
(*                                                                         *)
(* A load from a file or a directory runs in steps: the call, and then one *)
(* step for each callback the file system runs.  A promise reaction and    *)
(* the callback of async.series run in the turn of the callback that       *)
(* settled the promise, so a rejected file and the rollback are one step.  *)
(* An exception thrown inside a callback leaves the load pending for ever. *)
(* The file system and process.env are fixed and small.                    *)
(***************************************************************************)
EXTENDS Integers, Sequences, FiniteSets, TLC

VARIABLES
    layers,         \* this.layers: normalized name -> Layer object
    layerNames,     \* this.layerNames: the search order, index 0 first
    pathSeparator,  \* this.pathSeparator
    loads,          \* the pending loadFromFile / loadFromDirectory operations
    call,           \* the last operation called on the object, with its arguments
    ret,            \* how that operation returned: outcome and value
    pre             \* layers and layerNames when that operation was called

vars == <<layers, layerNames, pathSeparator, loads, call, ret, pre>>

---------------------------------------------------------------------------
(* JavaScript values *)

Undefined == [t |-> "undefined"]
Null      == [t |-> "null"]
Str(s)    == [t |-> "string", s |-> s]
Num(n)    == [t |-> "number", n |-> n]
Bool(b)   == [t |-> "boolean", b |-> b]
Obj(m)    == [t |-> "object", m |-> m]
Arr(a)    == [t |-> "array", a |-> a]

EmptyMap == [k \in {} |-> Null]

isString(v)      == v.t = "string"
isArray(v)       == v.t = "array"
isPlainObject(v) == v.t = "object"
isInteger(v)     == v.t = "number"

\* ToBoolean, as applied by Boolean(x), !x and x ? a : b
Truthy(v) ==
    CASE v.t = "undefined" -> FALSE
      [] v.t = "null"      -> FALSE
      [] v.t = "string"    -> v.s # <<>>
      [] v.t = "number"    -> v.n # 0
      [] v.t = "boolean"   -> v.b
      [] OTHER             -> TRUE

castArray(v) == IF isArray(v) THEN v.a ELSE <<v>>

---------------------------------------------------------------------------
(* Strings *)

Whitespace == {" "}

RECURSIVE TrimStart(_)
TrimStart(s) ==
    IF s # <<>> /\ Head(s) \in Whitespace THEN TrimStart(Tail(s)) ELSE s

RECURSIVE TrimEnd(_)
TrimEnd(s) ==
    IF s # <<>> /\ s[Len(s)] \in Whitespace
    THEN TrimEnd(SubSeq(s, 1, Len(s) - 1))
    ELSE s

\* String.prototype.trim
Trim(s) == TrimEnd(TrimStart(s))

StartsWith(s, p) == Len(p) <= Len(s) /\ SubSeq(s, 1, Len(p)) = p

\* String.prototype.split with a string separator
RECURSIVE SplitFrom(_, _, _)
SplitFrom(s, sep, piece) ==
    IF s = <<>> THEN <<piece>>
    ELSE IF StartsWith(s, sep)
         THEN <<piece>> \o SplitFrom(SubSeq(s, Len(sep) + 1, Len(s)), sep, <<>>)
         ELSE SplitFrom(Tail(s), sep, Append(piece, Head(s)))

Split(s, sep) ==
    IF sep = <<>>
    THEN [i \in 1..Len(s) |-> <<s[i]>>]
    ELSE SplitFrom(s, sep, <<>>)

MapTrim(q) == [i \in 1..Len(q) |-> Trim(q[i])]

IsLegalElement(item) == Trim(item) # <<>>

\* as splitPath, but the elements are left as they were split
splitPath_NoTrim(path) ==
    IF ~isString(path)
    THEN [out |-> "TypeError", segs |-> <<>>]
    ELSE [out |-> "ok",
          segs |-> SelectSeq(Split(path.s, pathSeparator), IsLegalElement)]

\* splitPath(path): the canonical segments, or a TypeError
splitPath(path) ==
    IF ~isString(path)
    THEN [out |-> "TypeError", segs |-> <<>>]
    ELSE [out |-> "ok",
          segs |-> MapTrim(SelectSeq(Split(path.s, pathSeparator), IsLegalElement))]

NameIllegalChars == {".", "/", "\\", ":"}

\* normalizeLayerName(layerName)
normalizeLayerName(s) ==
    [i \in 1..Len(s) |-> IF s[i] \in NameIllegalChars THEN "_" ELSE s[i]]

---------------------------------------------------------------------------
(* Layer *)

\* new Layer(name, configData): writeToDisk is false, the data a deep copy.
\* gen tells apart the Layer objects that were created under one name.
NewLayer(name, configData, g) ==
    [name |-> name,
     writeToDisk |-> FALSE,
     data |-> IF Truthy(configData) THEN configData ELSE Obj(EmptyMap),
     gen |-> g]

\* Layer.doGetConfigurationNode(pathArray, currentContext)
RECURSIVE doGetConfigurationNode(_, _)
doGetConfigurationNode(pathArray, currentContext) ==
    LET len == Len(pathArray) IN
    IF len = 0 THEN currentContext
    ELSE LET pathElement == Head(pathArray)
             rest == Tail(pathArray)
         IN IF ~IsLegalElement(pathElement)
            THEN doGetConfigurationNode(rest, currentContext)
            ELSE IF ~isPlainObject(currentContext)
                    \/ pathElement \notin DOMAIN currentContext.m
                 THEN Undefined
                 ELSE IF len = 1
                      THEN currentContext.m[pathElement]
                      ELSE doGetConfigurationNode(rest, currentContext.m[pathElement])

\* Layer.getConfigurationNode(pathArray)
getConfigurationNode(layer, pathArray) ==
    doGetConfigurationNode(pathArray, layer.data)

\* currentContext[key] = value, on a plain object
PutKey(m, key, value) ==
    [k \in DOMAIN m \cup {key} |-> IF k = key THEN value ELSE m[k]]

\* delete currentContext[key]
DeleteKey(m, key) == [k \in DOMAIN m \ {key} |-> m[k]]

\* Layer.doSetConfigurationNode(pathArray, value, currentContext): the
\* context after the call (the code mutates it in place).  An illegal path
\* element is skipped by a recursive call that consumes the rest of the
\* array, and the code then goes on with that element all the same.
RECURSIVE doSetConfigurationNode(_, _, _)
doSetConfigurationNode(pathArray, value, currentContext) ==
    LET len == Len(pathArray) IN
    IF len = 0 THEN currentContext
    ELSE LET pathElement == Head(pathArray)
             illegal == ~IsLegalElement(pathElement)
             ctx == IF illegal
                    THEN doSetConfigurationNode(Tail(pathArray), value, currentContext)
                    ELSE currentContext
             rest == IF illegal THEN <<>> ELSE Tail(pathArray)
         IN IF len = 1
            THEN IF value = Undefined
                 THEN Obj(DeleteKey(ctx.m, pathElement))
                 ELSE Obj(PutKey(ctx.m, pathElement, value))
            ELSE LET child == IF pathElement \notin DOMAIN ctx.m
                                 \/ ~isPlainObject(ctx.m[pathElement])
                              THEN Obj(EmptyMap)
                              ELSE ctx.m[pathElement]
                 IN Obj(PutKey(ctx.m, pathElement,
                               doSetConfigurationNode(rest, value, child)))

\* as setConfigurationNode, but the data is made anew from the path alone
setConfigurationNode_Fresh(layer, pathArray, value) ==
    [layer EXCEPT !.data = doSetConfigurationNode(pathArray, value, Obj(EmptyMap))]

\* Layer.setConfigurationNode(pathArray, value)
setConfigurationNode(layer, pathArray, value) ==
    [layer EXCEPT !.data = doSetConfigurationNode(pathArray, value, layer.data)]

\* Layer.clear()
clear(layer) == [layer EXCEPT !.data = Obj(EmptyMap)]

---------------------------------------------------------------------------
(* LayeredConfiguration: the synchronous operations, as functions of the   *)
(* configuration c = [layers, layerNames].  Each returns the configuration *)
(* it leaves behind, the outcome ("ok", or the error thrown) and the value *)
(* returned.                                                               *)

Cfg(L, N) == [layers |-> L, layerNames |-> N]

Return(c, v) == [cfg |-> c, out |-> "ok", val |-> v]
Throw(c, e)  == [cfg |-> c, out |-> e, val |-> Undefined]

Min(a, b) == IF a < b THEN a ELSE b
Max(a, b) == IF a > b THEN a ELSE b

\* Array.prototype.indexOf: the first index (from 0) of x, or -1
indexOf(q, x) ==
    IF \E i \in 1..Len(q) : q[i] = x
    THEN (CHOOSE i \in 1..Len(q) : q[i] = x /\ \A j \in 1..(i - 1) : q[j] # x) - 1
    ELSE -1

\* as spliceInsert, but the index is clamped to the last element
spliceInsert_ClampToLast(q, start, item) ==
    LET n == Len(q)
        at == IF start < 0 THEN Max(n + start, 0) ELSE Min(start, Max(n - 1, 0))
    IN SubSeq(q, 1, at) \o <<item>> \o SubSeq(q, at + 1, n)

\* q.splice(start, 0, item)
spliceInsert(q, start, item) ==
    LET n == Len(q)
        at == IF start < 0 THEN Max(n + start, 0) ELSE Min(start, n)
    IN SubSeq(q, 1, at) \o <<item>> \o SubSeq(q, at + 1, n)

\* q.splice(idx, 1), for an index of q
spliceRemove(q, idx) == SubSeq(q, 1, idx) \o SubSeq(q, idx + 2, Len(q))

\* The Layer objects the pending directory loads still hold under a name
HeldGens(name) ==
    {loads[i].oldLayers[name].gen :
        i \in {j \in DOMAIN loads : loads[j].kind = "directory"
                                    /\ name \in DOMAIN loads[j].oldLayers}}

FreshGen(name) == CHOOSE g \in 0..Cardinality(HeldGens(name)) : g \notin HeldGens(name)

\* this.layers[layerName] || undefined, after the name was normalized
lookupLayer(c, s) ==
    LET layerName == normalizeLayerName(s)
    IN IF layerName \in DOMAIN c.layers THEN c.layers[layerName] ELSE Undefined

\* getLayer(layerName)
getLayer(c, layerName) ==
    IF ~isString(layerName) THEN Throw(c, "TypeError")
    ELSE Return(c, lookupLayer(c, layerName.s))

\* as removeSingleLayer, but the name stays in the layer order
removeSingleLayer_KeepsName(c, layerName) ==
    IF ~isString(layerName) THEN Throw(c, "TypeError")
    ELSE LET name == normalizeLayerName(layerName.s)
         IN Return(Cfg([k \in DOMAIN c.layers \ {name} |-> c.layers[k]],
                       c.layerNames),
                   Undefined)

\* removeSingleLayer(layerName)
removeSingleLayer(c, layerName) ==
    IF ~isString(layerName) THEN Throw(c, "TypeError")
    ELSE LET name == normalizeLayerName(layerName.s)
             idx == indexOf(c.layerNames, name)
             N1 == IF idx > -1 THEN spliceRemove(c.layerNames, idx) ELSE c.layerNames
             L1 == IF name \in DOMAIN c.layers
                   THEN [k \in DOMAIN c.layers \ {name} |-> c.layers[k]]
                   ELSE c.layers
         IN Return(Cfg(L1, N1), Undefined)

RECURSIVE removeEach(_, _)
removeEach(c, q) ==
    IF q = <<>> THEN Return(c, Undefined)
    ELSE LET r == removeSingleLayer(c, Head(q))
         IN IF r.out # "ok" THEN r ELSE removeEach(r.cfg, Tail(q))

\* as removeLayer, but only the first of the names is removed
removeLayer_FirstOnly(c, layerName) ==
    IF isArray(layerName)
    THEN (IF layerName.a = <<>> THEN Return(c, Undefined)
          ELSE removeSingleLayer(c, Head(layerName.a)))
    ELSE removeSingleLayer(c, layerName)

\* removeLayer(layerName): one name or an array of names
removeLayer(c, layerName) ==
    removeEach(c, IF isArray(layerName) THEN layerName.a ELSE <<layerName>>)

\* as addLayerAt, but a layer of that name is not removed first
addLayerAt_NoRemove(c, layerName, configurationData, layerIndex) ==
    IF ~isString(layerName) THEN Throw(c, "TypeError")
    ELSE IF ~isPlainObject(configurationData) /\ configurationData # Undefined
    THEN Throw(c, "TypeError")
    ELSE IF ~isInteger(layerIndex) THEN Throw(c, "TypeError")
    ELSE LET name == normalizeLayerName(layerName.s)
             layer == NewLayer(name, configurationData, FreshGen(name))
             L2 == [k \in DOMAIN c.layers \cup {name} |->
                        IF k = name THEN layer ELSE c.layers[k]]
             N2 == spliceInsert(c.layerNames, layerIndex.n, name)
         IN Return(Cfg(L2, N2), layer)

\* addLayerAt(layerName, configurationData, layerIndex)
addLayerAt(c, layerName, configurationData, layerIndex) ==
    IF ~isString(layerName) THEN Throw(c, "TypeError")
    ELSE IF ~isPlainObject(configurationData) /\ configurationData # Undefined
    THEN Throw(c, "TypeError")
    ELSE IF ~isInteger(layerIndex) THEN Throw(c, "TypeError")
    ELSE LET name == normalizeLayerName(layerName.s)
             c1 == removeLayer(c, Str(name)).cfg
             layer == NewLayer(name, configurationData, FreshGen(name))
             L2 == [k \in DOMAIN c1.layers \cup {name} |->
                        IF k = name THEN layer ELSE c1.layers[k]]
             N2 == spliceInsert(c1.layerNames, layerIndex.n, name)
         IN Return(Cfg(L2, N2), layer)

\* as addLayer, but the layer is appended
addLayer_Append(c, layerName, configurationData) ==
    addLayerAt(c, layerName, configurationData, Num(Len(c.layerNames)))

\* addLayer(layerName, configurationData)
addLayer(c, layerName, configurationData) ==
    addLayerAt(c, layerName, configurationData, Num(0))

\* as addLayerRelativeTo, but a layer relative to no layer is put first
addLayerRelativeTo_UnknownFirst(c, layerName, configurationData, otherLayerName, before) ==
    IF ~isString(otherLayerName) THEN Throw(c, "TypeError")
    ELSE LET found == indexOf(c.layerNames, otherLayerName.s)
             idx == IF found = -1 THEN 0
                    ELSE IF before THEN found ELSE found + 1
         IN addLayerAt(c, layerName, configurationData, Num(idx))

\* addLayerRelativeTo(layerName, configurationData, otherLayerName, before)
addLayerRelativeTo(c, layerName, configurationData, otherLayerName, before) ==
    IF ~isString(otherLayerName) THEN Throw(c, "TypeError")
    ELSE LET found == indexOf(c.layerNames, otherLayerName.s)
             idx0 == IF found = -1
                     THEN (IF before THEN 0 ELSE Len(c.layerNames))
                     ELSE found
             idx == IF before THEN idx0 ELSE idx0 + 1
         IN addLayerAt(c, layerName, configurationData, Num(idx))

\* addLayerBefore(layerName, configurationData, otherLayerName)
addLayerBefore(c, layerName, configurationData, otherLayerName) ==
    addLayerRelativeTo(c, layerName, configurationData, otherLayerName, TRUE)

\* addLayerAfter(layerName, configurationData, otherLayerName)
addLayerAfter(c, layerName, configurationData, otherLayerName) ==
    addLayerRelativeTo(c, layerName, configurationData, otherLayerName, FALSE)

\* removeAllLayers()
removeAllLayers(c) == Return(Cfg([k \in {} |-> Undefined], <<>>), Undefined)

RECURSIVE clearEach(_, _)
clearEach(c, q) ==
    IF q = <<>> THEN Return(c, Undefined)
    ELSE LET singleLayerName == Head(q) IN
         IF ~isString(singleLayerName) THEN Throw(c, "TypeError")
         ELSE LET layer == lookupLayer(c, singleLayerName.s)
                  c1 == IF layer # Undefined
                        THEN Cfg([c.layers EXCEPT ![layer.name] = clear(layer)],
                                 c.layerNames)
                        ELSE c
              IN clearEach(c1, Tail(q))

\* as clearLayer, but only the first of the names is cleared
clearLayer_FirstOnly(c, layerName) ==
    clearEach(c, SubSeq(castArray(layerName), 1, 1))

\* clearLayer(layerName): one name or an array of names
clearLayer(c, layerName) == clearEach(c, castArray(layerName))

\* clearAllLayers()
clearAllLayers(c) ==
    Return(Cfg([k \in DOMAIN c.layers |-> clear(c.layers[k])], c.layerNames),
           Undefined)

\* as searchLayers, but the loop is not left on a hit: the last hit wins
RECURSIVE searchLayers_LastWins(_, _, _, _)
searchLayers_LastWins(c, layerNamesToUse, pathArray, ignoreNulls) ==
    IF layerNamesToUse = <<>> THEN Return(c, Undefined)
    ELSE LET layerName == Head(layerNamesToUse) IN
         IF ~isString(layerName) THEN Throw(c, "TypeError")
         ELSE LET layer == lookupLayer(c, layerName.s)
                  res == IF layer # Undefined
                         THEN getConfigurationNode(layer, pathArray)
                         ELSE Undefined
                  later == searchLayers_LastWins(c, Tail(layerNamesToUse),
                                                 pathArray, ignoreNulls)
              IN IF later.out # "ok" \/ later.val # Undefined THEN later
                 ELSE IF res # Undefined /\ (~ignoreNulls \/ res # Null)
                      THEN Return(c, res)
                      ELSE later

\* as searchLayers, but a null is a hit even when nulls are to be ignored
RECURSIVE searchLayers_NullIsHit(_, _, _, _)
searchLayers_NullIsHit(c, layerNamesToUse, pathArray, ignoreNulls) ==
    IF layerNamesToUse = <<>> THEN Return(c, Undefined)
    ELSE LET layerName == Head(layerNamesToUse) IN
         IF ~isString(layerName) THEN Throw(c, "TypeError")
         ELSE LET layer == lookupLayer(c, layerName.s)
                  res == IF layer # Undefined
                         THEN getConfigurationNode(layer, pathArray)
                         ELSE Undefined
              IN IF res # Undefined
                 THEN Return(c, res)
                 ELSE searchLayers_NullIsHit(c, Tail(layerNamesToUse), pathArray,
                                             ignoreNulls)

\* the _.forEach of get over the names to use, left on the first hit
RECURSIVE searchLayers(_, _, _, _)
searchLayers(c, layerNamesToUse, pathArray, ignoreNulls) ==
    IF layerNamesToUse = <<>> THEN Return(c, Undefined)
    ELSE LET layerName == Head(layerNamesToUse) IN
         IF ~isString(layerName) THEN Throw(c, "TypeError")
         ELSE LET layer == lookupLayer(c, layerName.s)
                  res == IF layer # Undefined
                         THEN getConfigurationNode(layer, pathArray)
                         ELSE Undefined
              IN IF res # Undefined /\ (~ignoreNulls \/ res # Null)
                 THEN Return(c, res)
                 ELSE searchLayers(c, Tail(layerNamesToUse), pathArray, ignoreNulls)

StrSeq(q) == [i \in 1..Len(q) |-> Str(q[i])]

\* get(path, ignoreNulls, restrictToLayer)
get(c, path, ignoreNulls, restrictToLayer) ==
    IF ~isString(restrictToLayer) /\ restrictToLayer # Undefined
       /\ ~isArray(restrictToLayer)
    THEN Throw(c, "TypeError")
    ELSE LET p == splitPath(path) IN
         IF p.out # "ok" THEN Throw(c, p.out)
         ELSE searchLayers(c,
                           IF Truthy(restrictToLayer)
                           THEN castArray(restrictToLayer)
                           ELSE StrSeq(c.layerNames),
                           p.segs, Truthy(ignoreNulls))

\* has(path, ignoreNulls, restrictToLayer)
has(c, path, ignoreNulls, restrictToLayer) ==
    LET r == get(c, path, ignoreNulls, restrictToLayer)
    IN IF r.out # "ok" THEN r ELSE Return(c, Bool(r.val # Undefined))

\* as set, but the layer name is not looked at: the first layer is written
set_AlwaysDefault(c, path, value, layerName) ==
    IF layerName # Undefined /\ ~isString(layerName) THEN Throw(c, "TypeError")
    ELSE LET p == splitPath(path) IN
         IF p.out # "ok" THEN Throw(c, p.out)
         ELSE IF Len(p.segs) = 0 THEN Throw(c, "Error")
         ELSE IF Len(c.layerNames) = 0 THEN Throw(c, "Error")
         ELSE LET name == c.layerNames[1]
              IN Return(Cfg([c.layers EXCEPT ![name] =
                                 setConfigurationNode(c.layers[name], p.segs, value)],
                            c.layerNames),
                        Undefined)

\* as set, but without a layer name the last layer of the order is written
set_DefaultLast(c, path, value, layerName) ==
    IF layerName # Undefined /\ ~isString(layerName) THEN Throw(c, "TypeError")
    ELSE LET p == splitPath(path) IN
         IF p.out # "ok" THEN Throw(c, p.out)
         ELSE IF Len(p.segs) = 0 THEN Throw(c, "Error")
         ELSE LET blank == ~Truthy(layerName) \/ Trim(layerName.s) = <<>> IN
              IF blank /\ Len(c.layerNames) = 0 THEN Throw(c, "Error")
              ELSE LET name == normalizeLayerName(
                                   IF blank THEN c.layerNames[Len(c.layerNames)]
                                   ELSE layerName.s)
                       c1 == IF lookupLayer(c, name) = Undefined
                             THEN addLayer(c, Str(name), Undefined).cfg
                             ELSE c
                       layer == c1.layers[name]
                   IN Return(Cfg([c1.layers EXCEPT ![name] =
                                      setConfigurationNode(layer, p.segs, value)],
                                 c1.layerNames),
                             Undefined)

\* as set, but a layer that is not registered is added below the others
set_NewLayerLast(c, path, value, layerName) ==
    IF layerName # Undefined /\ ~isString(layerName) THEN Throw(c, "TypeError")
    ELSE LET p == splitPath(path) IN
         IF p.out # "ok" THEN Throw(c, p.out)
         ELSE IF Len(p.segs) = 0 THEN Throw(c, "Error")
         ELSE LET blank == ~Truthy(layerName) \/ Trim(layerName.s) = <<>> IN
              IF blank /\ Len(c.layerNames) = 0 THEN Throw(c, "Error")
              ELSE LET name == normalizeLayerName(
                                   IF blank THEN c.layerNames[1] ELSE layerName.s)
                       c1 == IF lookupLayer(c, name) = Undefined
                             THEN addLayerAt(c, Str(name), Undefined,
                                             Num(Len(c.layerNames))).cfg
                             ELSE c
                       layer == c1.layers[name]
                   IN Return(Cfg([c1.layers EXCEPT ![name] =
                                      setConfigurationNode(layer, p.segs, value)],
                                 c1.layerNames),
                             Undefined)

\* as set, but the layer is looked up and added before the path is looked at
set_LayerBeforePath(c, path, value, layerName) ==
    IF layerName # Undefined /\ ~isString(layerName) THEN Throw(c, "TypeError")
    ELSE LET p == splitPath(path) IN
         IF p.out # "ok" THEN Throw(c, p.out)
         ELSE LET blank == ~Truthy(layerName) \/ Trim(layerName.s) = <<>> IN
              IF blank /\ Len(c.layerNames) = 0 THEN Throw(c, "Error")
              ELSE LET name == normalizeLayerName(
                                   IF blank THEN c.layerNames[1] ELSE layerName.s)
                       c1 == IF lookupLayer(c, name) = Undefined
                             THEN addLayer(c, Str(name), Undefined).cfg
                             ELSE c
                       layer == c1.layers[name]
                   IN IF Len(p.segs) = 0 THEN Throw(c1, "Error")
                      ELSE Return(Cfg([c1.layers EXCEPT ![name] =
                                          setConfigurationNode(layer, p.segs, value)],
                                      c1.layerNames),
                                  Undefined)

\* set(path, value, layerName)
set(c, path, value, layerName) ==
    IF layerName # Undefined /\ ~isString(layerName) THEN Throw(c, "TypeError")
    ELSE LET p == splitPath(path) IN
         IF p.out # "ok" THEN Throw(c, p.out)
         ELSE IF Len(p.segs) = 0 THEN Throw(c, "Error")
         ELSE LET blank == ~Truthy(layerName) \/ Trim(layerName.s) = <<>> IN
              IF blank /\ Len(c.layerNames) = 0 THEN Throw(c, "Error")
              ELSE LET name == normalizeLayerName(
                                   IF blank THEN c.layerNames[1] ELSE layerName.s)
                       c1 == IF lookupLayer(c, name) = Undefined
                             THEN addLayer(c, Str(name), Undefined).cfg
                             ELSE c
                       layer == c1.layers[name]
                   IN Return(Cfg([c1.layers EXCEPT ![name] =
                                      setConfigurationNode(layer, p.segs, value)],
                                 c1.layerNames),
                             Undefined)

---------------------------------------------------------------------------
(* The environment: process.env and the file system the loads read.  Both  *)
(* are fixed.  Variable names hold no "." and no "[", and no variable's    *)
(* name is a prefix of another's once split at the separator.              *)

\* process.env, in the order _.forEach visits it: A=1, B_C=2
processEnv == << <<(<<"A">>), (<<"1">>)>>, <<(<<"B", "_", "C">>), (<<"2">>)>> >>

UpperCase == <<"A", "B", "C", "J", "N", "O", "S", "T", "X">>
LowerCase == <<"a", "b", "c", "j", "n", "o", "s", "t", "x">>

\* String.prototype.toLowerCase
toLowerCase(s) ==
    [i \in 1..Len(s) |->
        IF \E k \in DOMAIN UpperCase : UpperCase[k] = s[i]
        THEN LowerCase[CHOOSE k \in DOMAIN UpperCase : UpperCase[k] = s[i]]
        ELSE s[i]]

\* the characters of file names, in the order of their code units
CodeUnits == <<".", "/", "A", "B", "C", "J", "N", "O", "S", "T", "X", "_",
               "a", "b", "c", "h", "j", "n", "o", "s", "t", "x">>

CodeOf(ch) == CHOOSE k \in DOMAIN CodeUnits : CodeUnits[k] = ch

\* s < t as Array.prototype.sort compares strings
RECURSIVE Before(_, _)
Before(s, t) ==
    IF t = <<>> THEN FALSE
    ELSE IF s = <<>> THEN TRUE
    ELSE IF Head(s) = Head(t) THEN Before(Tail(s), Tail(t))
    ELSE CodeOf(Head(s)) < CodeOf(Head(t))

RECURSIVE InsertSorted(_, _)
InsertSorted(q, s) ==
    IF q = <<>> THEN <<s>>
    ELSE IF Before(s, Head(q)) THEN <<s>> \o q
    ELSE <<Head(q)>> \o InsertSorted(Tail(q), s)

\* as sort, but the files stay in the order they are listed in
sort_AsListed(files) == files

\* files.sort()
RECURSIVE sort(_)
sort(files) ==
    IF files = <<>> THEN <<>> ELSE InsertSorted(sort(Tail(files)), Head(files))

\* the index of the last ch in s, 0 if there is none
LastIndexOf(s, ch) ==
    IF \E i \in DOMAIN s : s[i] = ch
    THEN CHOOSE i \in DOMAIN s : s[i] = ch /\ \A j \in DOMAIN s : s[j] = ch => j <= i
    ELSE 0

LastPart(p) == SubSeq(p, LastIndexOf(p, "/") + 1, Len(p))

\* path.extname(p)
extname(p) ==
    LET base == LastPart(p)
        dot == LastIndexOf(base, ".")
    IN IF dot <= 1 THEN <<>> ELSE SubSeq(base, dot, Len(base))

\* path.basename(p, ext)
basename(p, ext) ==
    LET base == LastPart(p)
        n == Len(base) - Len(ext)
    IN IF ext # <<>> /\ n > 0 /\ SubSeq(base, n + 1, Len(base)) = ext
       THEN SubSeq(base, 1, n)
       ELSE base

\* path.join(directoryPath, file)
join(directoryPath, file) == directoryPath \o <<"/">> \o file

extHjson == <<".", "h", "j", "s", "o", "n">>
extJson  == <<".", "j", "s", "o", "n">>

\* the directories
dirGood    == <<"o">>       \* a.hjson, b.hjson, b.json and n.txt
dirIllegal == <<"x">>       \* a.json, and b.JSON that holds no mapping
dirBroken  == <<"t">>       \* a.hjson, and b.json that cannot be decoded
dirLocked  == <<"l">>       \* a.json, and b.json that may not be read
dirMissing == <<"n">>       \* does not exist
dirEmpty   == <<"e">>       \* n.txt alone: no configuration file

fileA_hjson == <<"a">> \o extHjson
fileB_hjson == <<"b">> \o extHjson
fileA_json  == <<"a">> \o extJson
fileB_json  == <<"b">> \o extJson
fileB_JSON  == <<"b", ".", "J", "S", "O", "N">>
fileN_txt   == <<"n", ".", "t", "x", "t">>

textA     == <<"{", "a", ":", "\"", "1", "\"", "}">>    \* {a:"1"}
textEmpty == <<"{", "}">>                    \* {}
textFive  == <<"5">>                         \* 5
textOpen  == <<"{">>                         \* {

\* what fs.readdir hands to its callback, in the order the system lists it
readdir(directoryPath) ==
    IF directoryPath = dirGood
    THEN [err |-> FALSE, files |-> <<fileB_json, fileA_hjson, fileN_txt, fileB_hjson>>]
    ELSE IF directoryPath = dirIllegal
    THEN [err |-> FALSE, files |-> <<fileB_JSON, fileA_json>>]
    ELSE IF directoryPath = dirBroken
    THEN [err |-> FALSE, files |-> <<fileB_json, fileA_hjson>>]
    ELSE IF directoryPath = dirLocked
    THEN [err |-> FALSE, files |-> <<fileA_json, fileB_json>>]
    ELSE IF directoryPath = dirEmpty
    THEN [err |-> FALSE, files |-> <<fileN_txt>>]
    ELSE [err |-> TRUE, files |-> <<>>]

\* what fs.readFile hands to its callback
readFile(filePath) ==
    IF filePath \in {join(dirGood, fileA_hjson), join(dirGood, fileB_json),
                     join(dirBroken, fileA_hjson), join(dirLocked, fileA_json)}
    THEN [err |-> FALSE, data |-> textA]
    ELSE IF filePath \in {join(dirGood, fileB_hjson), join(dirIllegal, fileA_json)}
    THEN [err |-> FALSE, data |-> textEmpty]
    ELSE IF filePath \in {join(dirGood, fileN_txt), join(dirIllegal, fileB_JSON),
                          join(dirEmpty, fileN_txt)}
    THEN [err |-> FALSE, data |-> textFive]
    ELSE IF filePath = join(dirBroken, fileB_json)
    THEN [err |-> FALSE, data |-> textOpen]
    ELSE [err |-> TRUE, data |-> <<>>]

\* fs.access(filePath, R_OK): a directory is readable too
access(filePath) ==
    IF filePath \in {dirGood, dirIllegal, dirBroken, dirLocked, dirEmpty}
    THEN [err |-> FALSE]
    ELSE [err |-> readFile(filePath).err]

Digits == <<"0", "1", "2", "3", "4", "5", "6", "7", "8", "9">>

\* the characters of text up to the first quote
RECURSIVE UpToQuote(_)
UpToQuote(text) ==
    IF text = <<>> THEN <<>>
    ELSE IF Head(text) = "\"" THEN <<>>
    ELSE <<Head(text)>> \o UpToQuote(Tail(text))

\* Hjson.parse on the texts above: a digit, a string in quotes, or a mapping
\* in braces whose members are one-letter keys with such values; anything
\* else throws
RECURSIVE parseValue(_)
RECURSIVE parseMembers(_, _)

parseValue(text) ==
    IF text = <<>> THEN [ok |-> FALSE]
    ELSE IF Head(text) = "{" THEN parseMembers(Tail(text), EmptyMap)
    ELSE IF Head(text) = "\""
    THEN LET chars == UpToQuote(Tail(text))
         IN IF Len(chars) + 2 > Len(text) THEN [ok |-> FALSE]
            ELSE [ok |-> TRUE, val |-> Str(chars),
                  rest |-> SubSeq(text, Len(chars) + 3, Len(text))]
    ELSE IF \E d \in DOMAIN Digits : Digits[d] = Head(text)
    THEN [ok |-> TRUE,
          val |-> Num((CHOOSE d \in DOMAIN Digits : Digits[d] = Head(text)) - 1),
          rest |-> Tail(text)]
    ELSE [ok |-> FALSE]

parseMembers(text, m) ==
    IF text = <<>> THEN [ok |-> FALSE]
    ELSE IF Head(text) = "}" THEN [ok |-> TRUE, val |-> Obj(m), rest |-> Tail(text)]
    ELSE IF Head(text) = "," THEN parseMembers(Tail(text), m)
    ELSE IF Len(text) < 3 THEN [ok |-> FALSE]
    ELSE IF text[2] # ":" THEN [ok |-> FALSE]
    ELSE LET v == parseValue(SubSeq(text, 3, Len(text)))
         IN IF ~v.ok THEN [ok |-> FALSE]
            ELSE parseMembers(v.rest, PutKey(m, <<Head(text)>>, v.val))

HjsonParse(data) ==
    LET r == parseValue(data)
    IN IF ~r.ok THEN [out |-> "throw", val |-> Undefined]
       ELSE IF r.rest # <<>> THEN [out |-> "throw", val |-> Undefined]
       ELSE [out |-> "ok", val |-> r.val]

---------------------------------------------------------------------------
(* LayeredConfiguration: loading *)

\* the options of getEnvData; a field that is not given is undefined (the
\* option match is never given)
Options(lowerCase, separator, whitelist) ==
    [t |-> "options", lowerCase |-> lowerCase, separator |-> separator,
     whitelist |-> whitelist]

\* _.set / _.setWith(data, path, value, Object) for a path given in segments
RECURSIVE setWith(_, _, _)
setWith(m, segs, value) ==
    IF Len(segs) = 1 THEN PutKey(m, segs[1], value)
    ELSE LET key == Head(segs)
             child == IF key \in DOMAIN m
                      THEN (IF isPlainObject(m[key]) THEN m[key].m ELSE EmptyMap)
                      ELSE EmptyMap
         IN PutKey(m, key, Obj(setWith(child, Tail(segs), value)))

RECURSIVE envInto(_, _, _)
envInto(m, env, o) ==
    IF env = <<>> THEN m
    ELSE LET key == IF o.lowerCase THEN toLowerCase(Head(env)[1]) ELSE Head(env)[1]
             value == Str(Head(env)[2])
             use == IF Len(o.whitelist) = 0 THEN TRUE
                    ELSE indexOf(o.whitelist, Str(key)) # -1
             m2 == IF ~use THEN m
                   ELSE IF o.separator # Undefined
                        THEN setWith(m, Split(key, o.separator.s), value)
                        ELSE setWith(m, <<key>>, value)
         IN envInto(m2, Tail(env), o)

\* getEnvData(options)
getEnvData(options) ==
    LET given == IF Truthy(options) THEN options
                 ELSE Options(Undefined, Undefined, Undefined)
        o == [separator |-> IF Truthy(given.separator) THEN given.separator
                            ELSE Undefined,
              lowerCase |-> IF given.lowerCase # Undefined THEN Truthy(given.lowerCase)
                            ELSE TRUE,
              whitelist |-> IF Truthy(given.whitelist) THEN given.whitelist.a
                            ELSE <<>>]
    IN Obj(envInto(EmptyMap, processEnv, o))

process_env == <<"p", "r", "o", "c", "e", "s", "s", "_", "e", "n", "v">>

\* loadFromEnv(options, layerName)
loadFromEnv(c, options, layerName) ==
    IF Truthy(layerName) /\ ~isString(layerName) THEN Throw(c, "TypeError")
    ELSE LET blank == IF Truthy(layerName) THEN Trim(layerName.s) = <<>> ELSE TRUE
             r == addLayer(c, IF blank THEN Str(process_env) ELSE layerName,
                           getEnvData(options))
         IN [r EXCEPT !.val = Undefined]

\* the callback loadFromFile gives to fs.readFile: the promise is resolved
\* or rejected, or the callback throws and the promise is left pending
readFileCallback(c, filePath, layerName) ==
    LET file == readFile(filePath) IN
    IF file.err THEN [cfg |-> c, out |-> "rejected", val |-> Undefined]
    ELSE IF Truthy(layerName) /\ ~isString(layerName)
    THEN [cfg |-> c, out |-> "thrown", val |-> Undefined]
    ELSE LET blank == IF Truthy(layerName) THEN Trim(layerName.s) = <<>> ELSE TRUE
             name == IF blank THEN Str(basename(filePath, extname(filePath)))
                     ELSE layerName
             jsonData == HjsonParse(file.data)
         IN IF jsonData.out = "throw"
            THEN [cfg |-> c, out |-> "thrown", val |-> Undefined]
            ELSE IF ~isPlainObject(jsonData.val)
            THEN [cfg |-> c, out |-> "rejected", val |-> Undefined]
            ELSE [cfg |-> addLayer(c, name, jsonData.val).cfg, out |-> "resolved",
                  val |-> Undefined]

IsConfigFile(file) == toLowerCase(extname(file)) \in {extHjson, extJson}

\* the files loadFromDirectory makes a load function for, in their order
loadOrder(directoryPath, files) ==
    LET chosen == SelectSeq(sort(files), IsConfigFile)
    IN [i \in 1..Len(chosen) |-> join(directoryPath, chosen[i])]

\* the callback of async.series on an error: the old state is put back
rollback(c, load) == Cfg(load.oldLayers, load.oldLayerNames)

---------------------------------------------------------------------------
(* LayeredConfiguration: saving *)

\* the keys of a mapping, in the order the text names them: the mappings of
\* the model keep no order of their keys, so the keys are written sorted
RECURSIVE InOrder(_)
InOrder(keys) ==
    IF keys = {} THEN <<>>
    ELSE LET k == CHOOSE k \in keys : \A o \in keys \ {k} : Before(k, o)
         IN <<k>> \o InOrder(keys \ {k})

\* Hjson.stringify, in the grammar of the texts above and without the white
\* space: a mapping in braces, a string in quotes, a digit, and null
RECURSIVE HjsonStringify(_)
RECURSIVE stringifyMembers(_, _)

HjsonStringify(v) ==
    IF isPlainObject(v)
    THEN <<"{">> \o stringifyMembers(v.m, InOrder(DOMAIN v.m)) \o <<"}">>
    ELSE IF isString(v) THEN <<"\"">> \o v.s \o <<"\"">>
    ELSE IF isInteger(v) /\ v.n + 1 \in DOMAIN Digits THEN <<Digits[v.n + 1]>>
    ELSE <<"n", "u", "l", "l">>

stringifyMembers(m, keys) ==
    IF keys = <<>> THEN <<>>
    ELSE Head(keys) \o <<":">> \o HjsonStringify(m[Head(keys)])
         \o (IF Len(keys) > 1 THEN <<",">> ELSE <<>>)
         \o stringifyMembers(m, Tail(keys))

\* what fs.stat hands to its callback
stat(directoryPath) ==
    IF directoryPath \in {dirGood, dirIllegal, dirBroken, dirLocked, dirEmpty}
    THEN [err |-> FALSE, isDirectory |-> TRUE]
    ELSE [err |-> readFile(directoryPath).err, isDirectory |-> FALSE]

\* what fs.writeFile hands to its callback: a file can be written into a
\* directory that exists, but b.hjson not into the directory dirLocked
writeFile(filePath) ==
    LET dir == stat(SubSeq(filePath, 1, LastIndexOf(filePath, "/") - 1))
    IN IF dir.err THEN [err |-> TRUE]
       ELSE IF ~dir.isDirectory THEN [err |-> TRUE]
       ELSE [err |-> filePath = join(dirLocked, fileB_hjson)]

\* saveToFile(layerName, filePath) up to its return: the promise is rejected
\* by an exception of the executor, or fs.writeFile is asked to write data
saveToFile(c, layerName, filePath) ==
    IF ~isString(layerName) THEN [out |-> "rejected", data |-> <<>>]
    ELSE LET layer == getLayer(c, Str(normalizeLayerName(layerName.s))).val
         IN IF layer = Undefined THEN [out |-> "rejected", data |-> <<>>]
            ELSE [out |-> "pending", data |-> HjsonStringify(layer.data)]

\* as layersToSave, but the writeToDisk flags are not looked at
layersToSave_All(c) == DOMAIN c.layers

\* the layers saveToDirectory makes a save function for
layersToSave(c) == {k \in DOMAIN c.layers : c.layers[k].writeToDisk}

\* the name of the file a layer is saved to
fileName(directoryPath, name) == join(directoryPath, name \o extHjson)

\* async.series starts the save function of the next layer of the queue, or
\* ends when none is left
saveNext(c, save, queue) ==
    IF queue = <<>>
    THEN [out |-> "resolved", save |-> [save EXCEPT !.pc = "resolved", !.queue = queue]]
    ELSE LET r == saveToFile(c, Str(Head(queue)), fileName(save.path, Head(queue)))
         IN IF r.out = "rejected"
            THEN [out |-> "rejected",
                  save |-> [save EXCEPT !.pc = "rejected", !.queue = queue]]
            ELSE [out |-> "pending",
                  save |-> [save EXCEPT !.pc = "writeFile", !.queue = queue,
                                        !.data = r.data]]

\* layer.writeToDisk = flag on the Layer object that getLayer(layerName)
\* returns; on undefined the assignment throws
writeToDisk(c, layerName, flag) ==
    LET r == getLayer(c, layerName)
    IN IF r.out # "ok" THEN r
       ELSE IF r.val = Undefined THEN Throw(c, "TypeError")
       ELSE Return(Cfg([c.layers EXCEPT ![r.val.name].writeToDisk = flag],
                       c.layerNames),
                   Undefined)

---------------------------------------------------------------------------
(* Bounds and the inputs the operations are called with *)

MaxLayers == 3      \* layers registered at one time
MaxIndex  == 4      \* the largest layerIndex passed to addLayerAt
MaxLeaf   == 1      \* leaf values are the numbers 1..MaxLeaf
MaxLoads  == 1      \* loads from files pending at one time
MaxBetween == 1     \* other operations between a load's call and its end

A == "a"
B == "b"
C == "c"

sA   == <<A>>
sB   == <<B>>
sC   == <<C>>
sAdB == <<A, ".", B>>           \* "a.b", normalized to "a_b"
sAuB == <<A, "_", B>>           \* "a_b"
sEmpty == <<>>                  \* ""
sBlank == <<" ">>               \* " "

Leaves == {Num(n) : n \in 1..MaxLeaf}

\* {a: 1}
DataLeaf == Obj((sA :> Num(1)))
\* {a: "1"}, as the files and the environment hold it
DataText == Obj((sA :> Str(<<"1">>)))
\* paths, written with the separator "."
pA     == Str(<<A>>)                                \* "a"
pAB    == Str(<<A, ".", B>>)                        \* "a.b"
pNoisy == Str(<<".", " ", A, ".", " ", ".", B, ".">>)  \* ". a. .b."
pNone  == Str(<<".", " ", ".">>)                    \* ". ."
pEmpty == Str(<<>>)                                 \* ""

---------------------------------------------------------------------------
(* The state *)

NoLayers == [k \in {} |-> Undefined]
NoLoads == <<>>

Here == Cfg(layers, layerNames)

Init ==
    /\ layers = NoLayers
    /\ layerNames = <<>>
    /\ pathSeparator = <<".">>
    /\ loads = NoLoads
    /\ call = [op |-> "constructor"]
    /\ ret = [out |-> "ok", val |-> Undefined]
    /\ pre = Cfg(NoLayers, <<>>)

\* A Layer object that a pending directory load holds in its snapshot is the
\* object the configuration holds whenever name and gen agree: what a call
\* did to it in place shows in the snapshot too.
Shared(old, L) ==
    [k \in DOMAIN old |->
        IF k \in DOMAIN L /\ L[k].gen = old[k].gen THEN L[k] ELSE old[k]]

Touched(L) ==
    [i \in DOMAIN loads |->
        IF loads[i].kind = "directory"
        THEN [loads[i] EXCEPT !.oldLayers = Shared(@, L), !.between = @ + 1]
        ELSE [loads[i] EXCEPT !.between = @ + 1]]

\* The model lets at most MaxBetween other operations run between the call
\* of a load and its last callback; i is the load that runs itself, or 0.
MayRun(i) == \A j \in DOMAIN loads \ {i} : loads[j].between < MaxBetween

\* A synchronous call op(args) that ended as r
Called(op, args, r) ==
    /\ MayRun(0)
    /\ layers' = r.cfg.layers
    /\ layerNames' = r.cfg.layerNames
    /\ loads' = Touched(r.cfg.layers)
    /\ call' = [op |-> op, args |-> args]
    /\ ret' = [out |-> r.out, val |-> r.val]
    /\ pre' = Here
    /\ UNCHANGED pathSeparator

\* The model registers at most MaxLayers layers: a call that would add
\* one more is not made.
Room(layerName) ==
    IF Len(layerNames) < MaxLayers THEN TRUE
    ELSE IF ~isString(layerName) THEN TRUE
    ELSE normalizeLayerName(layerName.s) \in DOMAIN layers

Get(path, ignoreNulls, restrictToLayer) ==
    /\ Called("get", <<path, ignoreNulls, restrictToLayer>>,
              get(Here, path, ignoreNulls, restrictToLayer))

Has(path, ignoreNulls, restrictToLayer) ==
    /\ Called("has", <<path, ignoreNulls, restrictToLayer>>,
              has(Here, path, ignoreNulls, restrictToLayer))

Set(path, value, layerName) ==
    /\ Room(IF Truthy(layerName) THEN layerName ELSE Num(0))
    /\ Called("set", <<path, value, layerName>>, set(Here, path, value, layerName))

AddLayer(layerName, configurationData) ==
    /\ Room(layerName)
    /\ Called("addLayer", <<layerName, configurationData>>,
              addLayer(Here, layerName, configurationData))

AddLayerAt(layerName, configurationData, layerIndex) ==
    /\ Room(layerName)
    /\ Called("addLayerAt", <<layerName, configurationData, layerIndex>>,
              addLayerAt(Here, layerName, configurationData, layerIndex))

AddLayerBefore(layerName, configurationData, otherLayerName) ==
    /\ Room(layerName)
    /\ Called("addLayerBefore", <<layerName, configurationData, otherLayerName>>,
              addLayerBefore(Here, layerName, configurationData, otherLayerName))

AddLayerAfter(layerName, configurationData, otherLayerName) ==
    /\ Room(layerName)
    /\ Called("addLayerAfter", <<layerName, configurationData, otherLayerName>>,
              addLayerAfter(Here, layerName, configurationData, otherLayerName))

RemoveLayer(layerName) ==
    /\ Called("removeLayer", <<layerName>>, removeLayer(Here, layerName))

RemoveAllLayers ==
    /\ Called("removeAllLayers", <<>>, removeAllLayers(Here))

ClearLayer(layerName) ==
    /\ Called("clearLayer", <<layerName>>, clearLayer(Here, layerName))

ClearAllLayers ==
    /\ Called("clearAllLayers", <<>>, clearAllLayers(Here))

LoadFromEnv(options, layerName) ==
    /\ Room(IF Truthy(layerName) THEN layerName ELSE Str(process_env))
    /\ Called("loadFromEnv", <<options, layerName>>,
              loadFromEnv(Here, options, layerName))

\* a load that was just called: what it holds until its callbacks have run
NewLoad(kind, filePath, layerName) ==
    [kind |-> kind,
     pc |-> IF kind = "directory" THEN "readdir" ELSE "access",
     path |-> filePath,
     layerName |-> layerName,
     queue |-> <<>>,
     oldLayers |-> IF kind = "directory" THEN layers ELSE NoLayers,
     oldLayerNames |-> IF kind = "directory" THEN layerNames ELSE <<>>,
     atCall |-> Here,
     between |-> 0,
     failed |-> "no"]

\* loadFromFile(filePath, layerName) up to its return: fs.access is asked
LoadFromFile(filePath, layerName) ==
    /\ Len(loads) < MaxLoads
    /\ MayRun(0)
    /\ loads' = Append(Touched(layers), NewLoad("file", filePath, layerName))
    /\ call' = [op |-> "loadFromFile", args |-> <<Str(filePath), layerName>>]
    /\ ret' = [out |-> "pending", val |-> Undefined]
    /\ pre' = Here
    /\ UNCHANGED <<layers, layerNames, pathSeparator>>

\* loadFromDirectory(directoryPath) up to its return: the snapshot is
\* taken and fs.readdir is asked
LoadFromDirectory(directoryPath) ==
    /\ Len(loads) < MaxLoads
    /\ MayRun(0)
    /\ loads' = Append(Touched(layers), NewLoad("directory", directoryPath, Undefined))
    /\ call' = [op |-> "loadFromDirectory", args |-> <<Str(directoryPath)>>]
    /\ ret' = [out |-> "pending", val |-> Undefined]
    /\ pre' = Here
    /\ UNCHANGED <<layers, layerNames, pathSeparator>>

\* With no load pending no snapshot holds a Layer object: the objects are
\* told apart by their names alone.
Unheld(L) == [k \in DOMAIN L |-> [L[k] EXCEPT !.gen = 0]]

RemoveAt(q, i) == SubSeq(q, 1, i - 1) \o SubSeq(q, i + 1, Len(q))

\* A callback of load i ran and left the configuration c and the load as
\* load: still pending, or settled (resolved, rejected) or left for ever
\* by an exception (thrown), and then no longer among the loads.
Callback(i, op, c, load, out) ==
    /\ MayRun(i)
    /\ loads' = IF out = "pending"
                THEN [Touched(c.layers) EXCEPT ![i] = load]
                ELSE RemoveAt(Touched(c.layers), i)
    /\ layers' = IF loads' = NoLoads THEN Unheld(c.layers) ELSE c.layers
    /\ layerNames' = c.layerNames
    /\ call' = [op |-> op, args |-> <<Str(loads[i].path)>>]
    /\ ret' = [out |-> out, val |-> IF out = "pending" THEN Undefined ELSE load]
    /\ pre' = Here
    /\ UNCHANGED pathSeparator

\* the file load i is at
FileOf(load) == IF load.kind = "file" THEN load.path ELSE Head(load.queue)

\* the callback loadFromDirectory gives to fs.readdir, up to the fs.access
\* of the first file
ReaddirCallback(i) ==
    /\ i \in DOMAIN loads
    /\ loads[i].pc = "readdir"
    /\ LET load == loads[i]
           r == readdir(load.path)
           queue == loadOrder(load.path, r.files)
       IN IF r.err
          THEN Callback(i, "readdir callback", Here,
                        [load EXCEPT !.pc = "rejected", !.failed = "readdir"],
                        "rejected")
          ELSE IF queue = <<>>
          THEN Callback(i, "readdir callback", Here,
                        [load EXCEPT !.pc = "resolved"], "resolved")
          ELSE Callback(i, "readdir callback", Here,
                        [load EXCEPT !.pc = "access", !.queue = queue], "pending")

\* the callback loadFromFile gives to fs.access; a rejection inside a
\* directory load runs the callback of async.series, which rolls back
AccessCallback(i) ==
    /\ i \in DOMAIN loads
    /\ loads[i].pc = "access"
    /\ LET load == loads[i]
       IN IF access(FileOf(load)).err
          THEN Callback(i, "access callback",
                        IF load.kind = "directory" THEN rollback(Here, load) ELSE Here,
                        [load EXCEPT !.pc = "rejected", !.failed = "file"],
                        "rejected")
          ELSE Callback(i, "access callback", Here,
                        [load EXCEPT !.pc = "readFile"], "pending")

\* the callback loadFromFile gives to fs.readFile; inside a directory load
\* a resolution starts the next file and a rejection rolls back
ReadFileCallback(i) ==
    /\ i \in DOMAIN loads
    /\ loads[i].pc = "readFile"
    /\ LET load == loads[i]
           r == readFileCallback(Here, FileOf(load), load.layerName)
           rest == IF load.kind = "directory" THEN Tail(load.queue) ELSE <<>>
       IN IF r.out = "resolved"
          THEN IF rest = <<>>
               THEN Callback(i, "readFile callback", r.cfg,
                             [load EXCEPT !.pc = "resolved", !.queue = rest],
                             "resolved")
               ELSE Callback(i, "readFile callback", r.cfg,
                             [load EXCEPT !.pc = "access", !.queue = rest],
                             "pending")
          ELSE IF r.out = "rejected"
          THEN Callback(i, "readFile callback",
                        IF load.kind = "directory" THEN rollback(Here, load) ELSE Here,
                        [load EXCEPT !.pc = "rejected", !.failed = "file"],
                        "rejected")
          ELSE Callback(i, "readFile callback", Here,
                        [load EXCEPT !.pc = "thrown", !.failed = "file"],
                        "thrown")

\* this.pathSeparator = separator, as a caller sets the property
PathSeparator(separator) ==
    /\ MayRun(0)
    /\ pathSeparator' = separator
    /\ loads' = Touched(layers)
    /\ call' = [op |-> "pathSeparator", args |-> <<Str(separator)>>]
    /\ ret' = [out |-> "ok", val |-> Undefined]
    /\ pre' = Here
    /\ UNCHANGED <<layers, layerNames>>

\* layer.writeToDisk = flag, as the callers of saveToDirectory set it
WriteToDisk(layerName, flag) ==
    /\ Called("writeToDisk", <<layerName, Bool(flag)>>,
              writeToDisk(Here, layerName, flag))

\* a save that was just called: what it holds until its callbacks have run;
\* data is the text fs.writeFile was asked to write, written the files that
\* were written, each with its text
NewSave(kind, filePath) ==
    [kind |-> kind,
     pc |-> IF kind = "saveDirectory" THEN "stat" ELSE "writeFile",
     path |-> filePath,
     queue |-> <<>>,
     data |-> <<>>,
     written |-> <<>>,
     atCall |-> Here,
     between |-> 0]

\* saveToFile(layerName, filePath) up to its return
SaveToFile(layerName, filePath) ==
    /\ Len(loads) < MaxLoads
    /\ MayRun(0)
    /\ LET r == saveToFile(Here, layerName, filePath)
       IN /\ loads' = IF r.out = "rejected" THEN Touched(layers)
                      ELSE Append(Touched(layers),
                                  [NewSave("saveFile", filePath) EXCEPT !.data = r.data])
          /\ ret' = [out |-> r.out, val |-> Undefined]
    /\ call' = [op |-> "saveToFile", args |-> <<layerName, Str(filePath)>>]
    /\ pre' = Here
    /\ UNCHANGED <<layers, layerNames, pathSeparator>>

\* saveToDirectory(directoryPath) up to its return: fs.stat is asked
SaveToDirectory(directoryPath) ==
    /\ Len(loads) < MaxLoads
    /\ MayRun(0)
    /\ loads' = Append(Touched(layers), NewSave("saveDirectory", directoryPath))
    /\ call' = [op |-> "saveToDirectory", args |-> <<Str(directoryPath)>>]
    /\ ret' = [out |-> "pending", val |-> Undefined]
    /\ pre' = Here
    /\ UNCHANGED <<layers, layerNames, pathSeparator>>

\* the orders a set of layer names can be visited in
Orders(names) ==
    {q \in [1..Cardinality(names) -> names] :
        \A i, j \in DOMAIN q : i # j => q[i] # q[j]}

\* the callback saveToDirectory gives to fs.stat, up to the fs.writeFile of
\* the first layer.  _.forEach visits this.layers in the order the layers
\* were added in, which the model does not keep: every order is taken.
StatCallback(i) ==
    /\ i \in DOMAIN loads
    /\ loads[i].pc = "stat"
    /\ LET save == loads[i]
           r == stat(save.path)
       IN IF r.err
          THEN Callback(i, "stat callback", Here,
                        [save EXCEPT !.pc = "rejected"], "rejected")
          ELSE IF ~r.isDirectory
          THEN Callback(i, "stat callback", Here,
                        [save EXCEPT !.pc = "thrown"], "thrown")
          ELSE \E queue \in Orders(layersToSave(Here)) :
                  LET n == saveNext(Here, save, queue)
                  IN Callback(i, "stat callback", Here, n.save, n.out)

\* the callback saveToFile gives to fs.writeFile; inside saveToDirectory a
\* resolution starts the save of the next layer
WriteFileCallback(i) ==
    /\ i \in DOMAIN loads
    /\ loads[i].pc = "writeFile"
    /\ LET save == loads[i]
           file == IF save.kind = "saveFile" THEN save.path
                   ELSE fileName(save.path, Head(save.queue))
           done == [save EXCEPT
                       !.written = Append(@, [file |-> file, data |-> save.data])]
       IN IF writeFile(file).err
          THEN Callback(i, "writeFile callback", Here,
                        [save EXCEPT !.pc = "rejected"], "rejected")
          ELSE IF save.kind = "saveFile"
          THEN Callback(i, "writeFile callback", Here,
                        [done EXCEPT !.pc = "resolved"], "resolved")
          ELSE LET n == saveNext(Here, done, Tail(save.queue))
               IN Callback(i, "writeFile callback", Here, n.save, n.out)

---------------------------------------------------------------------------
(* Spec: the management of the layers "a", "b" and "a_b"                   *)

LayerNameInputs == {Str(sA), Str(sB), Str(sAdB)}
OtherNameInputs == {Str(sA), Str(sB), Str(sAdB), Str(sAuB), Str(sC)}
IndexInputs == {Num(i) : i \in -1..MaxIndex}
RemoveInputs ==
    {Str(sA), Str(sB), Str(sAdB), Str(sC), Num(1),
     Arr(<<Str(sA), Str(sAdB)>>), Arr(<<Str(sB), Num(1), Str(sA)>>)}

Next ==
    \/ \E n \in LayerNameInputs \cup {Num(1)}, d \in {Undefined, DataLeaf} :
           AddLayer(n, d)
    \/ \E n \in LayerNameInputs, d \in {Undefined, DataLeaf}, i \in IndexInputs :
           AddLayerAt(n, d, i)
    \/ \E n \in LayerNameInputs, o \in OtherNameInputs :
           AddLayerBefore(n, Undefined, o)
    \/ \E n \in LayerNameInputs, o \in OtherNameInputs :
           AddLayerAfter(n, Undefined, o)
    \/ \E n \in RemoveInputs : RemoveLayer(n)
    \/ RemoveAllLayers
    \/ \E n \in RemoveInputs : ClearLayer(n)
    \/ ClearAllLayers

Spec == Init /\ [][Next]_vars

---------------------------------------------------------------------------
(* SpecGet: reading from the layers "a_b" and "b"                          *)

\* {a: {b: 2}}
DataBranch == Obj((sA :> Obj((sB :> Num(2)))))
\* {a: {b: null, c: 1}}
DataNullLeaf == Obj((sA :> Obj((sB :> Null) @@ (sC :> Num(1)))))
\* {a: null}
DataNull == Obj((sA :> Null))

GetNames == {Str(sAdB), Str(sB)}
GetData == {Undefined, DataLeaf, DataBranch, DataNullLeaf, DataNull}
GetPaths == {pA, pAB, pNoisy, pEmpty}
IgnoreInputs == {Undefined, Bool(FALSE), Bool(TRUE)}
RestrictInputs ==
    {Undefined, Str(sEmpty), Str(sBlank), Str(sAdB), Str(sC),
     Arr(<<>>), Arr(<<Str(sB), Str(sAuB)>>), Arr(<<Str(sC), Str(sAdB), Str(sB)>>)}

\* layer names passed as the second argument, as the README passes them
SecondInputs == {Str(sB), Arr(<<Str(sB), Str(sAdB)>>)}

NextGet ==
    \/ \E n \in GetNames, d \in GetData : AddLayer(n, d)
    \/ \E n \in GetNames : RemoveLayer(n)
    \/ \E p \in GetPaths, i \in IgnoreInputs, r \in RestrictInputs : Get(p, i, r)
    \/ \E r \in {Undefined, Str(sB)} : Has(pAB, Bool(TRUE), r)
    \/ \E r \in SecondInputs : Get(pA, r, Undefined)

SpecGet == Init /\ [][NextGet]_vars

---------------------------------------------------------------------------
(* SpecSet: writing into the layers "a_b" and "b"                          *)

\* {a: {c: 1}}
DataSibling == Obj((sA :> Obj((sC :> Num(1)))))

\* {a: []}
DataList == Obj((sA :> Arr(<<>>)))

SetPaths == {pA, pAB, pNoisy, pNone, pEmpty}
SetValues == {Undefined, Null} \cup Leaves
SetNames == {Undefined, Str(sEmpty), Str(sBlank), Str(sAdB), Str(sB)}

NextSet ==
    \/ \E n \in GetNames, d \in {Undefined, DataSibling} : AddLayer(n, d)
    \/ AddLayer(Str(sB), DataList)
    \/ \E p \in SetPaths, v \in SetValues, n \in SetNames : Set(p, v, n)

SpecSet == Init /\ [][NextSet]_vars

---------------------------------------------------------------------------
(* SpecIO: every operation that changes the layers, with the loads from    *)
(* the environment, from files and from directories                        *)

\* {separator: '_', whitelist: ['a']}
EnvOptions == {Options(Undefined, Str(<<"_">>), Arr(<<Str(sA)>>))}

FileInputs ==
    {<<join(dirGood, fileA_hjson), Undefined>>,
     <<dirGood, Str(sA)>>,
     <<join(dirMissing, fileA_json), Undefined>>,
     <<join(dirIllegal, fileB_JSON), Undefined>>,
     <<join(dirBroken, fileB_json), Undefined>>}

DirectoryInputs ==
    {dirGood, dirIllegal, dirBroken, dirLocked, dirMissing, dirEmpty}

NextIO ==
    \/ AddLayer(Str(sA), DataText)
    \/ AddLayerAt(Str(sB), Undefined, Num(1))
    \/ AddLayerBefore(Str(sB), Undefined, Str(sA))
    \/ AddLayerAfter(Str(sA), Undefined, Str(sB))
    \/ RemoveLayer(Str(sA))
    \/ RemoveAllLayers
    \/ ClearLayer(Str(sB))
    \/ ClearAllLayers
    \/ \E layerName \in {Undefined, Str(sB)} : Set(pA, Str(<<"1">>), layerName)
    \/ \E options \in EnvOptions : LoadFromEnv(options, Str(sB))
    \/ \E f \in FileInputs : LoadFromFile(f[1], f[2])
    \/ \E directoryPath \in DirectoryInputs : LoadFromDirectory(directoryPath)
    \/ \E i \in 1..MaxLoads : ReaddirCallback(i)
    \/ \E i \in 1..MaxLoads : AccessCallback(i)
    \/ \E i \in 1..MaxLoads : ReadFileCallback(i)

SpecIO == Init /\ [][NextIO]_vars

---------------------------------------------------------------------------
(* SpecSave: saving the layers "a" and "b" to files and to directories     *)

SaveFileInputs ==
    {<<Str(sA), join(dirGood, fileA_hjson)>>,
     <<Str(sB), join(dirMissing, fileB_hjson)>>,
     <<Undefined, join(dirGood, fileA_hjson)>>}
SaveDirectoryInputs == {dirGood, dirLocked, dirMissing, join(dirGood, fileA_hjson)}

NextSave ==
    \/ \E n \in {Str(sA), Str(sB)}, d \in {Undefined, DataBranch} : AddLayer(n, d)
    \/ \E n \in {Str(sA), Str(sB)}, flag \in BOOLEAN : WriteToDisk(n, flag)
    \/ Set(pA, Str(<<"1">>), Undefined)
    \/ RemoveLayer(Str(sA))
    \/ \E f \in SaveFileInputs : SaveToFile(f[1], f[2])
    \/ \E directoryPath \in SaveDirectoryInputs : SaveToDirectory(directoryPath)
    \/ \E i \in 1..MaxLoads : StatCallback(i)
    \/ \E i \in 1..MaxLoads : WriteFileCallback(i)

SpecSave == Init /\ [][NextSave]_vars

\* The callbacks of fs.stat and fs.writeFile are run by the event loop: one
\* that can run does run.  The calls of the program's user are under no such
\* condition.
FairSave ==
    /\ SpecSave
    /\ WF_vars(\E i \in 1..MaxLoads : StatCallback(i))
    /\ WF_vars(\E i \in 1..MaxLoads : WriteFileCallback(i))

---------------------------------------------------------------------------
(* SpecPath: reading and writing the layer "b" under the separators ".",   *)
(* ":", "::" and " "; a layer that was written is added anew before it is  *)
(* written again                                                           *)

\* {a: {b: 2, ":b": 1}, "a:": {b: 3}}
DataColon ==
    Obj((sA :> Obj((sB :> Num(2)) @@ (<<":", B>> :> Num(1))))
        @@ (<<A, ":">> :> Obj((sB :> Num(3)))))

pColon  == Str(<<A, ":", " ", ":", ":", B>>)               \* "a: ::b"
pColons == Str(<<":", ":", A, ":", ":", " ", ":", ":", B>>) \* "::a:: ::b"

PathInputs == {pA, pAB, pNoisy, pNone, pEmpty, pColon, pColons}

NextPath ==
    \/ \E d \in {Undefined, DataColon} : AddLayer(Str(sB), d)
    \/ \E separator \in {<<".">>, <<":">>, <<":", ":">>, <<" ">>} :
          PathSeparator(separator)
    \/ \E p \in PathInputs : Get(p, Undefined, Undefined)
    \/ \E p \in PathInputs : Has(p, Undefined, Undefined)
    \/ \E p \in IF \A k \in DOMAIN layers :
                        layers[k].data \in {Obj(EmptyMap), DataColon}
                 THEN PathInputs ELSE {},
             v \in {Undefined, Num(1)} : Set(p, v, Undefined)

SpecPath == Init /\ [][NextPath]_vars

---------------------------------------------------------------------------
(* What the claims speak of *)

\* the value a mapping tree holds at a canonical path, undefined if none
RECURSIVE ValueAt(_, _)
ValueAt(v, segs) ==
    IF segs = <<>> THEN v
    ELSE IF v.t = "object" /\ Head(segs) \in DOMAIN v.m
         THEN ValueAt(v.m[Head(segs)], Tail(segs))
         ELSE Undefined

Without(q, name) == SelectSeq(q, LAMBDA x : x # name)

Count(q, name) == Cardinality({i \in 1..Len(q) : q[i] = name})

\* the index, from 0, of a name that occurs in q
PositionOf(q, name) == (CHOOSE i \in 1..Len(q) : q[i] = name) - 1

CalledOk(op) == call.op = op /\ ret.out = "ok"

\* the canonical form of the path a get or set was called with
CallPath == splitPath(call.args[1]).segs

\* the first of the values that qualifies, undefined if none does
RECURSIVE FirstOf(_, _)
FirstOf(values, ignoreNulls) ==
    IF values = <<>> THEN Undefined
    ELSE IF Head(values) # Undefined /\ (~ignoreNulls \/ Head(values) # Null)
         THEN Head(values)
         ELSE FirstOf(Tail(values), ignoreNulls)

\* the values the layers named in q, in that order, hold at the path
ValuesIn(q, segs) == [i \in 1..Len(q) |-> ValueAt(layers[q[i]].data, segs)]

\* the registered layers a restriction names, in the caller's order
NamedIn(restrictToLayer) ==
    LET q == castArray(restrictToLayer)
        n == [i \in 1..Len(q) |-> normalizeLayerName(q[i].s)]
    IN SelectSeq(n, LAMBDA x : x \in DOMAIN layers)

IsNames(restrictToLayer) ==
    \/ isString(restrictToLayer)
    \/ /\ isArray(restrictToLayer)
       /\ \A i \in 1..Len(restrictToLayer.a) : isString(restrictToLayer.a[i])

---------------------------------------------------------------------------
(* C1 - first match wins: get(P) with no restriction and ignoreNulls false *)
(* returns what the first layer of the order that defines P holds at P -   *)
(* leaf, null or branch - and undefined only if no layer defines P.        *)

C1_Case ==
    /\ CalledOk("get")
    /\ ~Truthy(call.args[2])
    /\ call.args[3] = Undefined
    /\ CallPath # <<>>

C1_FirstMatchWins ==
    (call.op = "get" /\ ~Truthy(call.args[2]) /\ call.args[3] = Undefined
        /\ isString(call.args[1]) /\ CallPath # <<>>)
    => /\ ret.out = "ok"
       /\ ret.val = FirstOf(ValuesIn(layerNames, CallPath), FALSE)
       /\ (ret.val = Undefined
              <=> \A k \in DOMAIN layers : ValueAt(layers[k].data, CallPath) = Undefined)

\* two layers define P differently, the higher one with a branch
C1_Witness ==
    /\ C1_Case
    /\ Len(layerNames) = 2
    /\ ValueAt(layers[layerNames[1]].data, CallPath).t = "object"
    /\ ValueAt(layers[layerNames[2]].data, CallPath) \notin
           {Undefined, ValueAt(layers[layerNames[1]].data, CallPath)}
    /\ ret.val = ValueAt(layers[layerNames[1]].data, CallPath)

---------------------------------------------------------------------------
(* C2 - write then read in one layer: after set(P, V, L) with a non-empty  *)
(* canonical P, get(P, <ignoreNulls not given>, L) returns exactly V, null *)
(* and undefined included, whatever L held at P or at a prefix of P.       *)

C2_Case ==
    /\ CalledOk("set")
    /\ isString(call.args[3])

\* as claimed: for every layer name L
C2_AsClaimed ==
    C2_Case
    => get(Here, call.args[1], Undefined, call.args[3]) = Return(Here, call.args[2])

\* amended: for every layer name L that is not blank
C2_WriteThenRead ==
    (call.op = "set" /\ isString(call.args[3]) /\ Trim(call.args[3].s) # <<>>
        /\ CallPath # <<>>)
    => /\ ret.out = "ok"
       /\ get(Here, call.args[1], Undefined, call.args[3])
              = Return(Here, call.args[2])

\* a value was written below a prefix that held a leaf
C2_Witness ==
    /\ C2_Case
    /\ call.args[3] = Str(sAdB)
    /\ Len(CallPath) = 2
    /\ sAuB \in DOMAIN pre.layers
    /\ ValueAt(pre.layers[sAuB].data, <<CallPath[1]>>).t = "number"
    /\ call.args[2] = Null
    /\ get(Here, call.args[1], Undefined, call.args[3]).val = Null

---------------------------------------------------------------------------
(* C3 - in every state reachable by the operations that change the layers  *)
(* (the loads and the rollback included) the layer order holds no name     *)
(* twice and its names are exactly the keys of the layer mapping.          *)

C3_OrderIsKeySet ==
    /\ \A i, j \in DOMAIN layerNames : i # j => layerNames[i] # layerNames[j]
    /\ {layerNames[i] : i \in DOMAIN layerNames} = DOMAIN layers

\* a directory load rolled back two layers it had put over two others
C3_Witness ==
    /\ call.op = "readFile callback"
    /\ ret.out = "rejected"
    /\ ret.val.kind = "directory"
    /\ Len(layerNames) = 2
    /\ pre.layerNames # layerNames
    /\ pre.layers # layers

---------------------------------------------------------------------------
(* C4 - nulls: with ignoreNulls true a layer holding null at P is skipped  *)
(* and the result is the first non-null defined value of the layers        *)
(* searched (undefined if none); with ignoreNulls false or omitted the     *)
(* first defined value wins, null included.                                *)

\* the layers a call of get searches
C4_Searched ==
    IF Truthy(call.args[3]) THEN NamedIn(call.args[3]) ELSE layerNames

C4_NullHandling ==
    (call.op = "get" /\ isString(call.args[1])
        /\ (call.args[3] = Undefined \/ IsNames(call.args[3])))
    => /\ ret.out = "ok"
       /\ ret.val = FirstOf(ValuesIn(C4_Searched, CallPath), Truthy(call.args[2]))
       /\ (Truthy(call.args[2]) => ret.val # Null)

\* the first layer searched holds null, the second a value, which is returned
C4_Witness ==
    /\ CalledOk("get")
    /\ call.args[2] = Bool(TRUE)
    /\ CallPath # <<>>
    /\ Len(C4_Searched) = 2
    /\ ValueAt(layers[C4_Searched[1]].data, CallPath) = Null
    /\ ValueAt(layers[C4_Searched[2]].data, CallPath) \notin {Undefined, Null}
    /\ ret.val = ValueAt(layers[C4_Searched[2]].data, CallPath)

---------------------------------------------------------------------------
(* C5 - set(P, V) without a layer name, or with a blank one, while a layer *)
(* exists writes into the layer at index 0 only: the layer order and the   *)
(* data of every other layer are unchanged.                                *)

C5_Case ==
    /\ call.op = "set"
    /\ isString(call.args[1])
    /\ IF call.args[3] = Undefined THEN TRUE
       ELSE isString(call.args[3]) /\ Trim(call.args[3].s) = <<>>
    /\ pre.layerNames # <<>>

C5_DefaultLayerOnly ==
    C5_Case
    => /\ layerNames = pre.layerNames
       /\ DOMAIN layers = DOMAIN pre.layers
       /\ \A k \in DOMAIN layers \ {pre.layerNames[1]} : layers[k] = pre.layers[k]
       /\ IF CallPath = <<>>
          THEN ret.out = "Error" /\ layers = pre.layers
          ELSE ret.out = "ok"
               /\ ValueAt(layers[layerNames[1]].data, CallPath) = call.args[2]

\* with two layers, a blank name made the top layer change
C5_Witness ==
    /\ C5_Case
    /\ ret.out = "ok"
    /\ call.args[3] = Str(sBlank)
    /\ Len(layerNames) = 2
    /\ layers[layerNames[1]] # pre.layers[layerNames[1]]
    /\ layers[layerNames[2]].data # Obj(EmptyMap)

---------------------------------------------------------------------------
(* C6 - restriction: get(P, ignoreNulls, R) with R one name or a sequence  *)
(* of names searches exactly the registered layers R names, in R's order;  *)
(* unknown names are skipped, and the result is undefined if none of the   *)
(* named layers qualifies, whatever the other layers hold.                 *)

C6_RestrictedSearch ==
    (call.op = "get" /\ isString(call.args[1]) /\ CallPath # <<>>
        /\ IsNames(call.args[3]))
    => /\ ret.out = "ok"
       /\ ret.val = FirstOf(ValuesIn(NamedIn(call.args[3]), CallPath),
                            Truthy(call.args[2]))

---------------------------------------------------------------------------
(* C7 - a directory load is transactional: when it fails because one of    *)
(* its files fails to load, and no other operation ran in between, the     *)
(* layer order and every layer's data are then what they were when         *)
(* loadFromDirectory was called.                                           *)

C7_Case ==
    /\ call.op \in {"access callback", "readFile callback"}
    /\ ret.out \in {"rejected", "thrown"}
    /\ ret.val.kind = "directory"
    /\ ret.val.failed = "file"
    /\ ret.val.between = 0

C7_Transactional ==
    C7_Case => Here = ret.val.atCall

---------------------------------------------------------------------------
(* C8 - after addLayer(name, data) the normalized name is at index 0 of    *)
(* the layer order and the other layers keep their relative order.         *)

C8_AddLayerOnTop ==
    (call.op = "addLayer" /\ isString(call.args[1]))
    => LET name == normalizeLayerName(call.args[1].s)
       IN /\ ret.out = "ok"
          /\ layerNames # <<>>
          /\ layerNames[1] = name
          /\ Without(layerNames, name) = Without(pre.layerNames, name)

\* a new layer was put above two others
C8_Witness ==
    /\ CalledOk("addLayer")
    /\ Len(pre.layerNames) = 2
    /\ Len(layerNames) = 3
    /\ call.args[1] = Str(sAdB)
    /\ layerNames[1] = sAuB

---------------------------------------------------------------------------
(* C9 - re-adding replaces: after addLayer, addLayerAt, addLayerBefore or  *)
(* addLayerAfter with a registered name, the name occurs once in the       *)
(* order, the layer holds the new data only (the empty mapping if none was *)
(* given) and every other layer keeps its data and its relative order.     *)

C9_AddOps == {"addLayer", "addLayerAt", "addLayerBefore", "addLayerAfter"}

C9_Case ==
    /\ call.op \in C9_AddOps
    /\ ret.out = "ok"
    /\ normalizeLayerName(call.args[1].s) \in DOMAIN pre.layers

C9_ReAddReplaces ==
    C9_Case
    => LET name == normalizeLayerName(call.args[1].s)
       IN /\ Count(layerNames, name) = 1
          /\ name \in DOMAIN layers
          /\ layers[name].data =
                 (IF call.args[2] = Undefined THEN Obj(EmptyMap) ELSE call.args[2])
          /\ DOMAIN layers = DOMAIN pre.layers
          /\ \A k \in DOMAIN layers \ {name} : layers[k] = pre.layers[k]
          /\ Without(layerNames, name) = Without(pre.layerNames, name)

\* a layer that held data was added again without data, between two others
C9_Witness ==
    /\ C9_Case
    /\ call.op = "addLayerBefore"
    /\ Len(layerNames) = 3
    /\ pre.layers[normalizeLayerName(call.args[1].s)].data = DataLeaf
    /\ layers[normalizeLayerName(call.args[1].s)].data = Obj(EmptyMap)

---------------------------------------------------------------------------
(* C10 - after addLayerAt(name, data, i) with i >= 0 the name is at index  *)
(* i of the layer order, or at the last position if i exceeds the current  *)
(* length of the order; an index beyond the end raises no error.           *)

C10_Case ==
    /\ call.op = "addLayerAt"
    /\ isString(call.args[1])
    /\ call.args[3].n >= 0

\* as claimed: the length is that of the order when addLayerAt is called
C10_AsClaimed ==
    C10_Case
    => LET name == normalizeLayerName(call.args[1].s)
           i == call.args[3].n
       IN /\ ret.out = "ok"
          /\ Count(layerNames, name) = 1
          /\ \/ PositionOf(layerNames, name) = i
             \/ /\ i > Len(pre.layerNames)
                /\ PositionOf(layerNames, name) = Len(layerNames) - 1

\* amended: the length is that of the order without the name
C10_AddLayerAtIndex ==
    C10_Case
    => LET name == normalizeLayerName(call.args[1].s)
           i == call.args[3].n
           others == Len(Without(pre.layerNames, name))
       IN /\ ret.out = "ok"
          /\ Count(layerNames, name) = 1
          /\ PositionOf(layerNames, name) = (IF i > others THEN others ELSE i)
          /\ Len(layerNames) = others + 1

\* an index beyond the end of three layers put a fourth name - here there
\* are three names, so: an index beyond the end put the name last
C10_Witness ==
    /\ C10_Case
    /\ ret.out = "ok"
    /\ Len(pre.layerNames) = 2
    /\ Len(layerNames) = 3
    /\ call.args[3].n > 3
    /\ layerNames[3] = normalizeLayerName(call.args[1].s)

---------------------------------------------------------------------------
(* C11 - addLayerBefore(name, data, otherName), where otherName is in the  *)
(* layer order and is not the name, leaves the name immediately before     *)
(* otherName in the layer order, wherever the name was registered before.  *)

RelativeCase(op) ==
    /\ call.op = op
    /\ isString(call.args[1])
    /\ isString(call.args[3])
    /\ Count(pre.layerNames, call.args[3].s) = 1
    /\ call.args[3].s # normalizeLayerName(call.args[1].s)

C11_PlacedBefore ==
    RelativeCase("addLayerBefore")
    => /\ ret.out = "ok"
       /\ Count(layerNames, normalizeLayerName(call.args[1].s)) = 1
       /\ PositionOf(layerNames, normalizeLayerName(call.args[1].s)) + 1
              = PositionOf(layerNames, call.args[3].s)

---------------------------------------------------------------------------
(* C12 - addLayerAfter(name, data, otherName), where otherName is in the   *)
(* layer order and is not the name, leaves the name immediately after      *)
(* otherName in the layer order, wherever the name was registered before.  *)

C12_PlacedAfter ==
    RelativeCase("addLayerAfter")
    => /\ ret.out = "ok"
       /\ Count(layerNames, normalizeLayerName(call.args[1].s)) = 1
       /\ PositionOf(layerNames, normalizeLayerName(call.args[1].s))
              = PositionOf(layerNames, call.args[3].s) + 1

---------------------------------------------------------------------------
(* C13 - when otherName names no registered layer (not even after          *)
(* normalization), addLayerBefore puts the name at index 0 and             *)
(* addLayerAfter puts it at the last position; neither raises an error.    *)

C13_Case ==
    /\ call.op \in {"addLayerBefore", "addLayerAfter"}
    /\ isString(call.args[1])
    /\ isString(call.args[3])
    /\ normalizeLayerName(call.args[3].s) \notin DOMAIN pre.layers

C13_UnknownOther ==
    C13_Case
    => LET name == normalizeLayerName(call.args[1].s)
       IN /\ ret.out = "ok"
          /\ Count(layerNames, name) = 1
          /\ PositionOf(layerNames, name)
                 = (IF call.op = "addLayerBefore" THEN 0 ELSE Len(layerNames) - 1)

\* a registered layer was put last, below two others, by addLayerAfter
C13_Witness ==
    /\ C13_Case
    /\ call.op = "addLayerAfter"
    /\ Len(layerNames) = 3
    /\ normalizeLayerName(call.args[1].s) \in DOMAIN pre.layers
    /\ pre.layerNames[1] = normalizeLayerName(call.args[1].s)
    /\ layerNames[3] = normalizeLayerName(call.args[1].s)

---------------------------------------------------------------------------
(* C14 - set(P, V, L) with a non-empty canonical P and a name L that is    *)
(* not blank and, normalized, not registered adds a layer of that name at  *)
(* index 0 whose data holds V at P and nothing that is not on the path P;  *)
(* the layers registered before keep their data and their order.           *)

\* v holds value at segs, and no key that is not on the way to it
RECURSIVE OnlyOnPath(_, _, _)
OnlyOnPath(v, segs, value) ==
    IF segs = <<>> THEN v = value
    ELSE /\ v.t = "object"
         /\ DOMAIN v.m \subseteq {Head(segs)}
         /\ IF Head(segs) \in DOMAIN v.m
            THEN OnlyOnPath(v.m[Head(segs)], Tail(segs), value)
            ELSE value = Undefined

C14_Case ==
    /\ call.op = "set"
    /\ isString(call.args[1])
    /\ CallPath # <<>>
    /\ isString(call.args[3])
    /\ Trim(call.args[3].s) # <<>>
    /\ normalizeLayerName(call.args[3].s) \notin DOMAIN pre.layers

C14_NewLayerOnTop ==
    C14_Case
    => LET name == normalizeLayerName(call.args[3].s)
       IN /\ ret.out = "ok"
          /\ layerNames = <<name>> \o pre.layerNames
          /\ DOMAIN layers = DOMAIN pre.layers \cup {name}
          /\ \A k \in DOMAIN pre.layers : layers[k] = pre.layers[k]
          /\ OnlyOnPath(layers[name].data, CallPath, call.args[2])

\* null was written at "a.b" into a new layer "a_b", over a layer with data
C14_Witness ==
    /\ C14_Case
    /\ call.args[3] = Str(sAdB)
    /\ call.args[2] = Null
    /\ Len(CallPath) = 2
    /\ layerNames = <<sAuB, sB>>
    /\ layers[sB].data # Obj(EmptyMap)
    /\ ValueAt(layers[sAuB].data, CallPath) = Null

---------------------------------------------------------------------------
(* C15 - set throws an error that is no type error when the canonical form *)
(* of the path is empty, and when no layer name (or a blank one) is given  *)
(* while no layer is registered; the configuration is then unchanged, and  *)
(* no layer was added for a name passed with the empty path.               *)

C15_Case ==
    /\ call.op = "set"
    /\ isString(call.args[1])
    /\ IF call.args[3] = Undefined THEN TRUE ELSE isString(call.args[3])
    /\ IF CallPath = <<>> THEN TRUE
       ELSE /\ pre.layerNames = <<>>
            /\ IF call.args[3] = Undefined THEN TRUE
               ELSE Trim(call.args[3].s) = <<>>

C15_ErrorLeavesUnchanged ==
    C15_Case
    => /\ ret.out = "Error"
       /\ Here = pre

\* an empty path was passed with the name of a layer that is not registered
C15_Witness ==
    /\ C15_Case
    /\ call.args[1] = pNone
    /\ call.args[3] = Str(sAdB)
    /\ pre.layerNames = <<sB>>
    /\ layerNames = <<sB>>

---------------------------------------------------------------------------
(* C16 - removeLayer(names), with one name or a sequence of string names,  *)
(* removes exactly the layers named (after normalization) from the layer   *)
(* order and from the layer mapping; every other layer keeps its data and  *)
(* its place among the others, and a name of no registered layer does      *)
(* nothing.                                                                *)

\* the argument is one string or a sequence of strings
NamesGiven(v) ==
    IF isString(v) THEN TRUE
    ELSE IF isArray(v) THEN \A i \in DOMAIN v.a : isString(v.a[i])
    ELSE FALSE

\* the normalized names of such an argument
NamesOf(v) ==
    LET q == castArray(v) IN {normalizeLayerName(q[i].s) : i \in DOMAIN q}

C16_Case ==
    /\ call.op = "removeLayer"
    /\ NamesGiven(call.args[1])

C16_RemovesNamed ==
    C16_Case
    => LET names == NamesOf(call.args[1])
       IN /\ ret.out = "ok"
          /\ layerNames = SelectSeq(pre.layerNames, LAMBDA x : x \notin names)
          /\ DOMAIN layers = DOMAIN pre.layers \ names
          /\ \A k \in DOMAIN layers : layers[k] = pre.layers[k]

\* two of three layers were removed by one call
C16_Witness ==
    /\ C16_Case
    /\ isArray(call.args[1])
    /\ Len(pre.layerNames) = 3
    /\ layerNames = <<sB>>
    /\ layers[sB].data # Obj(EmptyMap)

---------------------------------------------------------------------------
(* C17 - clearLayer(names) leaves the layer order unchanged, leaves each   *)
(* named registered layer with the empty mapping as its data, leaves every *)
(* layer not named unchanged, and skips a name of no registered layer.     *)

C17_Case ==
    /\ call.op = "clearLayer"
    /\ NamesGiven(call.args[1])

C17_ClearsNamed ==
    C17_Case
    => LET names == NamesOf(call.args[1])
       IN /\ ret.out = "ok"
          /\ layerNames = pre.layerNames
          /\ DOMAIN layers = DOMAIN pre.layers
          /\ \A k \in DOMAIN layers :
                 layers[k] = IF k \in names
                             THEN [pre.layers[k] EXCEPT !.data = Obj(EmptyMap)]
                             ELSE pre.layers[k]

\* two layers with data were cleared by one call, a third kept its data
C17_Witness ==
    /\ C17_Case
    /\ isArray(call.args[1])
    /\ Len(layerNames) = 3
    /\ \A k \in DOMAIN pre.layers : pre.layers[k].data # Obj(EmptyMap)
    /\ layers[sA].data = Obj(EmptyMap)
    /\ layers[sAuB].data = Obj(EmptyMap)
    /\ layers[sB].data # Obj(EmptyMap)

---------------------------------------------------------------------------
(* C18 - when a directory lists both X.hjson and X.json, a call of         *)
(* loadFromDirectory that resolves (with no other operation run in         *)
(* between) leaves one layer X whose data is the content of X.json: the    *)
(* files are loaded one at a time in the order of their full names, and    *)
(* the layer of the later file replaces that of the earlier.               *)

\* the names X that the directory lists both as X.hjson and as X.json
BothForms(directoryPath) ==
    LET files == readdir(directoryPath).files
        names(ext) == {basename(files[i], ext) :
                          i \in {j \in DOMAIN files : extname(files[j]) = ext}}
    IN names(extHjson) \cap names(extJson)

\* the files a pending load has still to load are in ascending order
Ascending(q) == \A i \in 1..(Len(q) - 1) : Before(q[i], q[i + 1])

C18_Case ==
    /\ call.op = "readFile callback"
    /\ ret.out = "resolved"
    /\ ret.val.kind = "directory"
    /\ ret.val.between = 0

C18_JsonReplacesHjson ==
    /\ \A i \in DOMAIN loads : Ascending(loads[i].queue)
    /\ (C18_Case
        => \A X \in BothForms(ret.val.path) :
               /\ Count(layerNames, X) = 1
               /\ layers[X].data
                      = HjsonParse(readFile(join(ret.val.path, X \o extJson)).data).val)

\* the layer "b" made from b.hjson was replaced by the one made from b.json
C18_Witness ==
    /\ C18_Case
    /\ sB \in BothForms(ret.val.path)
    /\ pre.layers[sB].data = Obj(EmptyMap)
    /\ layers[sB].data = DataText
    /\ layerNames = <<sB, sA>>

---------------------------------------------------------------------------
(* C19 - every failure of loadFromFile (file missing or unreadable, read   *)
(* error, the decoder failing, the decoded value no mapping) is a          *)
(* rejection of the promise returned: no exception leaves a callback, and  *)
(* no layer is added, replaced or changed.                                 *)

C19_Case ==
    /\ call.op \in {"access callback", "readFile callback"}
    /\ ret.out \in {"rejected", "thrown"}
    /\ ret.val.kind = "file"

C19_FailureRejects ==
    C19_Case
    => /\ ret.out = "rejected"
       /\ Here = pre


---------------------------------------------------------------------------
(* C20 - a saveToDirectory(dir) that resolves, with no other operation     *)
(* between its call and its end, has written exactly one file              *)
(* dir/<layerName>.hjson for each registered layer whose writeToDisk flag  *)
(* is true, its text decoding to that layer's data, and no other file; a   *)
(* layer that was just created has the flag false.                         *)

C20_Case ==
    /\ call.op \in {"stat callback", "writeFile callback"}
    /\ ret.out = "resolved"
    /\ ret.val.kind = "saveDirectory"
    /\ ret.val.between = 0

FileFor(name) == ret.val.path \o <<"/">> \o name \o extHjson

WrittenTo(file) == {i \in DOMAIN ret.val.written : ret.val.written[i].file = file}

C20_SavesFlagged ==
    /\ C20_Case =>
          /\ \A k \in DOMAIN layers :
                IF layers[k].writeToDisk
                THEN /\ Cardinality(WrittenTo(FileFor(k))) = 1
                     /\ \A i \in WrittenTo(FileFor(k)) :
                           HjsonParse(ret.val.written[i].data)
                               = [out |-> "ok", val |-> layers[k].data]
                ELSE WrittenTo(FileFor(k)) = {}
          /\ \A i \in DOMAIN ret.val.written :
                \E k \in DOMAIN layers : i \in WrittenTo(FileFor(k))
    /\ (CalledOk("addLayer") /\ isString(call.args[1]))
          => ~layers[normalizeLayerName(call.args[1].s)].writeToDisk

C20_Witness ==
    /\ C20_Case
    /\ \E k, o \in DOMAIN layers :
          /\ layers[k].writeToDisk
          /\ layers[k].data # Obj(EmptyMap)
          /\ ~layers[o].writeToDisk
          /\ WrittenTo(FileFor(k)) # {}


---------------------------------------------------------------------------
(* C21 - a layer name, or a sequence of layer names, passed as the second  *)
(* argument of get restricts the search to the layers named, in the order  *)
(* given: get(P, R) returns what the first of the layers R names that      *)
(* defines P holds at P.                                                   *)

C21_SecondArgumentRestricts ==
    (call.op = "get" /\ isString(call.args[1]) /\ CallPath # <<>>
        /\ call.args[2] # Undefined /\ IsNames(call.args[2])
        /\ call.args[3] = Undefined)
    => /\ ret.out = "ok"
       /\ ret.val = FirstOf(ValuesIn(NamedIn(call.args[2]), CallPath), FALSE)


---------------------------------------------------------------------------
(* C22 - when loadFromDirectory resolves (with no other operation run in   *)
(* between), a layer that was registered at the call and that no           *)
(* configuration file of the directory is named after is still registered  *)
(* and holds no data.                                                      *)

\* the layer names the configuration files of a directory stand for
LayersIn(directoryPath) ==
    LET files == SelectSeq(readdir(directoryPath).files, IsConfigFile)
    IN {normalizeLayerName(basename(files[i], extname(files[i]))) :
            i \in DOMAIN files}

C22_Case ==
    /\ call.op \in {"readdir callback", "readFile callback"}
    /\ ret.out = "resolved"
    /\ ret.val.kind = "directory"
    /\ ret.val.between = 0

C22_OthersCleared ==
    C22_Case =>
        \A k \in DOMAIN ret.val.atCall.layers \ LayersIn(ret.val.path) :
            /\ k \in DOMAIN layers
            /\ layers[k].data = Obj(EmptyMap)


---------------------------------------------------------------------------
(* C23 - get, has and set behave on a path string exactly as on the path   *)
(* built from its trimmed non-empty segments joined by single separators,  *)
(* whenever the separator is one character long: the call returns or       *)
(* throws the same and leaves the same layers.                             *)

RECURSIVE JoinWith(_, _)
JoinWith(q, sep) ==
    IF q = <<>> THEN <<>>
    ELSE IF Len(q) = 1 THEN q[1]
    ELSE q[1] \o sep \o JoinWith(Tail(q), sep)

\* the trimmed non-empty segments of a path string, joined by the separator
CanonOf(s) ==
    LET items == Split(s, pathSeparator)
        kept == SelectSeq([i \in 1..Len(items) |-> Trim(items[i])],
                          LAMBDA x : x # <<>>)
    IN Str(JoinWith(kept, pathSeparator))

\* what the call that was made last gives on the path p instead of its own
OnPath(p) ==
    IF call.op = "get" THEN get(pre, p, call.args[2], call.args[3])
    ELSE IF call.op = "has" THEN has(pre, p, call.args[2], call.args[3])
    ELSE set(pre, p, call.args[2], call.args[3])

C23_Case ==
    /\ call.op \in {"get", "has", "set"}
    /\ isString(call.args[1])

SameOnCanon ==
    LET r == OnPath(CanonOf(call.args[1].s))
    IN /\ ret = [out |-> r.out, val |-> r.val]
       /\ Here = r.cfg

C23_CanonicalPath ==
    (C23_Case /\ Len(pathSeparator) = 1) => SameOnCanon

\* as the claim has it: for every separator
C23_AsClaimed ==
    C23_Case => SameOnCanon

\* a path with noise was read under a separator of one character, and a
\* value was found at its two segments
C23_Witness ==
    /\ C23_Case
    /\ Len(pathSeparator) = 1
    /\ CanonOf(call.args[1].s) # call.args[1]
    /\ Len(splitPath(call.args[1]).segs) = 2
    /\ call.op = "get"
    /\ ret.val = Num(2)


---------------------------------------------------------------------------
(* C24 - the otherName of addLayerBefore and addLayerAfter is normalized   *)
(* before it is looked up in the layer order: when otherName holds a       *)
(* character that normalization replaces and its normalized form is        *)
(* registered, a name that was not registered is placed immediately before *)
(* or immediately after that layer, as when the normalized form is passed. *)

C24_Case ==
    /\ call.op \in {"addLayerBefore", "addLayerAfter"}
    /\ isString(call.args[1])
    /\ isString(call.args[3])
    /\ normalizeLayerName(call.args[3].s) # call.args[3].s
    /\ Count(pre.layerNames, normalizeLayerName(call.args[3].s)) = 1
    /\ normalizeLayerName(call.args[1].s) \notin DOMAIN pre.layers

C24_OtherNormalized ==
    C24_Case
    => LET name == normalizeLayerName(call.args[1].s)
           other == normalizeLayerName(call.args[3].s)
       IN /\ ret.out = "ok"
          /\ Count(layerNames, name) = 1
          /\ IF call.op = "addLayerBefore"
             THEN PositionOf(layerNames, name) + 1 = PositionOf(layerNames, other)
             ELSE PositionOf(layerNames, name) = PositionOf(layerNames, other) + 1
          /\ Here = addLayerRelativeTo(pre, call.args[1], call.args[2], Str(other),
                                       call.op = "addLayerBefore").cfg


---------------------------------------------------------------------------
(* C25 - deleting only removes: after set(P, undefined, L) on a registered *)
(* layer L the data of L is its data from before without the node at P and *)
(* its subtree, and unchanged when L had no node at P.                     *)

\* the mapping tree v without the node at the canonical path segs
RECURSIVE Pruned(_, _)
Pruned(v, segs) ==
    IF segs = <<>> THEN v
    ELSE IF v.t # "object" THEN v
    ELSE IF Head(segs) \notin DOMAIN v.m THEN v
    ELSE IF Len(segs) = 1
    THEN Obj([k \in DOMAIN v.m \ {Head(segs)} |-> v.m[k]])
    ELSE Obj([v.m EXCEPT ![Head(segs)] = Pruned(@, Tail(segs))])

\* the layer a call of set names: the first one when the name is blank
SetTarget ==
    IF call.args[3] = Undefined THEN pre.layerNames[1]
    ELSE IF Trim(call.args[3].s) = <<>> THEN pre.layerNames[1]
    ELSE normalizeLayerName(call.args[3].s)

\* set(P, V, L) was called with a non-empty canonical P on a registered L
SetCase ==
    /\ call.op = "set"
    /\ isString(call.args[1])
    /\ CallPath # <<>>
    /\ call.args[3] = Undefined \/ isString(call.args[3])
    /\ pre.layerNames # <<>>
    /\ SetTarget \in DOMAIN pre.layers

C25_DeleteOnlyRemoves ==
    (SetCase /\ call.args[2] = Undefined)
    => /\ ret.out = "ok"
       /\ layers[SetTarget].data = Pruned(pre.layers[SetTarget].data, CallPath)


---------------------------------------------------------------------------
(* C26 - a path whose canonical form is empty is ignored on read: get      *)
(* returns undefined and has returns false, whatever the layers hold.      *)

C26_Case ==
    /\ call.op \in {"get", "has"}
    /\ isString(call.args[1])
    /\ CallPath = <<>>
    /\ call.args[3] = Undefined \/ IsNames(call.args[3])

C26_EmptyPathIgnored ==
    C26_Case
    => /\ ret.out = "ok"
       /\ ret.val = (IF call.op = "get" THEN Undefined ELSE Bool(FALSE))


---------------------------------------------------------------------------
(* C27 - after set(P, V, L) with V defined on a registered layer L, every  *)
(* proper prefix of P holds a mapping in L: a prefix that was absent or    *)
(* held no mapping is a new mapping with the next segment of P as its only *)
(* key, a prefix that held a mapping keeps its other keys, V is at P, and  *)
(* every node of L that is not on the path P is unchanged.                 *)

\* the mapping tree v with value at the canonical path segs, as the claim
\* has it
RECURSIVE Written(_, _, _)
Written(v, segs, value) ==
    IF segs = <<>> THEN value
    ELSE LET m == IF v.t = "object" THEN v.m ELSE EmptyMap
             below == IF Head(segs) \in DOMAIN m THEN m[Head(segs)] ELSE Undefined
         IN Obj([k \in DOMAIN m \cup {Head(segs)} |->
                    IF k = Head(segs) THEN Written(below, Tail(segs), value)
                    ELSE m[k]])

C27_Case ==
    /\ SetCase
    /\ call.args[2] # Undefined

C27_PrefixesAreMappings ==
    C27_Case
    => /\ ret.out = "ok"
       /\ \A n \in 1..(Len(CallPath) - 1) :
             ValueAt(layers[SetTarget].data, SubSeq(CallPath, 1, n)).t = "object"
       /\ layers[SetTarget].data
              = Written(pre.layers[SetTarget].data, CallPath, call.args[2])

\* a leaf at "a" was replaced by a mapping on the way to "a.b", in a layer
\* that is not the first
C27_Witness ==
    /\ C27_Case
    /\ Len(CallPath) = 2
    /\ Len(layerNames) = 2
    /\ SetTarget = layerNames[2]
    /\ ValueAt(pre.layers[SetTarget].data, <<Head(CallPath)>>) \in Leaves
    /\ DOMAIN ValueAt(layers[SetTarget].data, <<Head(CallPath)>>).m = {CallPath[2]}


---------------------------------------------------------------------------
(* C28 - every call of saveToDirectory settles in the end: while one is    *)
(* pending, a callback follows that resolves or rejects the promise of a   *)
(* saveToDirectory; none is left pending for ever by an exception that     *)
(* leaves a callback.                                                      *)

SavePending == \E i \in DOMAIN loads : loads[i].kind = "saveDirectory"

SaveSettled ==
    /\ call.op \in {"stat callback", "writeFile callback"}
    /\ ret.out \in {"resolved", "rejected"}
    /\ ret.val.kind = "saveDirectory"

C28_EventuallySettles == SavePending ~> SaveSettled


---------------------------------------------------------------------------
(* C29 - the rollback of a loadFromDirectory that fails on one of its      *)
(* files undoes only what that load did: a layer that the load did not     *)
(* make from a file is, after the rollback, registered or not and holding  *)
(* the data as before the callback that rolled back, and these layers keep *)
(* their order - whatever other operations made of them while the load was *)
(* pending.                                                                *)

\* the layers a settled directory load made from the files it had loaded
\* when it ended: those before the files left in its queue
OwnLayers(load) ==
    LET files == loadOrder(load.path, readdir(load.path).files)
        done == {i \in DOMAIN files : \A j \in DOMAIN load.queue : load.queue[j] # files[i]}
    IN {normalizeLayerName(basename(files[i], extname(files[i]))) : i \in done}

C29_Case ==
    /\ call.op \in {"access callback", "readFile callback"}
    /\ ret.out = "rejected"
    /\ ret.val.kind = "directory"
    /\ ret.val.failed = "file"

C29_RollbackKeepsOthers ==
    C29_Case
    => LET own == OwnLayers(ret.val)
           others(q) == SelectSeq(q, LAMBDA k : k \notin own)
       IN /\ DOMAIN layers \ own = DOMAIN pre.layers \ own
          /\ \A k \in DOMAIN layers \ own : layers[k].data = pre.layers[k].data
          /\ others(layerNames) = others(pre.layerNames)


---------------------------------------------------------------------------
(* C30 - removeLayer and clearLayer with a sequence that holds an element  *)
(* that is no string throw a type error and leave the configuration        *)
(* unchanged: no layer named by the sequence was removed or cleared.       *)

C30_Case ==
    /\ call.op \in {"removeLayer", "clearLayer"}
    /\ isArray(call.args[1])
    /\ \E i \in DOMAIN call.args[1].a : ~isString(call.args[1].a[i])

C30_TypeErrorIsAtomic ==
    C30_Case
    => /\ ret.out = "TypeError"
       /\ Here = pre

===========================================================================
